---- MODULE Spec2Model ----
(***************************************************************************)
(* Cross-frame state synchronisation (devwerewolf/wolfsong).               *)
(*                                                                         *)
(* Part I   - the reference two-tier library (IframeStateSync and          *)
(*            createChildClient) in its three copies: the JavaScript copy  *)
(*            and the TypeScript copy of docs/getting-started.md and the   *)
(*            Svelte demo's copy (README.md + createChildClient.ts).       *)
(* Part II  - the hierarchical StateManager of .kiro/specs (designed, not  *)
(*            built): propagation, sync directions, loop prevention.       *)
(* Part III - the StateManager's discovery state machine.                  *)
(* Part IV  - the reference library with a frame nested two levels deep,   *)
(*            the child-only calls in root role and foreign messages.      *)
(* Part V   - the four-frame legacy demo (trash/iframe-web-app).           *)
(* Part VI  - one value cell of the library and its subscriber callbacks.  *)
(***************************************************************************)
EXTENDS Integers, Sequences, FiniteSets, TLC

(***************************************************************************)
(* Bounds of the model                                                     *)
(***************************************************************************)
\* API calls made in one behaviour after the root's set-up
MaxOps == 3
\* registerAtom calls on a key that is already registered
MaxDups == 1
\* registerIframe calls per frame element (each attaches one load listener)
MaxListeners == 2
\* load events per frame element
MaxLoads == 1
\* button clicks in the frames of the legacy demo
MaxClicks == 2

(***************************************************************************)
(* Part I - the reference library                                          *)
(***************************************************************************)
\* Map.get(key) of a key that is not in the map (undefined)
NoAtom == "undefined"
\* the fallback createChildClient uses when a config has no initialValue
Null == "null"
\* a callback that was never invoked
Never == "never"

Children == {"A", "B"}
Keys == {"theme", "count"}
\* what a receiver reads from a field the envelope does not have (undefined)
Missing == "missing"
\* what a Map can be asked for: the applications' keys and the key read from an
\* envelope without key field
Slots == Keys \cup {Missing}
\* the values an application stores under each key
ValuesOf(k) == IF k = "theme" THEN {"light", "dark"} ELSE {"zero"}
\* the atom configs each child page passes to createChildClient: A tracks both
\* cells and gives an initialValue for each, B tracks the theme and gives none
\* (the Svelte copy's client takes no configs)
Tracked(c) == IF c = "A" THEN Keys ELSE {"theme"}
Fallback(c, k) == IF c = "A" THEN (IF k = "theme" THEN "dark" ELSE "zero") ELSE Null
Callbacks == {"cb1", "cb2"}
\* the cell the applications subscribe to
Watched == {"theme"}
Copies == {"js", "ts", "svelte"}

VARIABLES
  copy,        \* which of the three copies of the library runs
  atoms,       \* root: key -> current value of the registered cell, or NoAtom
  order,       \* root: the keys in Map insertion order
  subs,        \* root: key -> application callbacks subscribed to the cell
  seen,        \* root: key -> callback -> the value of its latest invocation
  iframes,     \* root: the Set of registered frame elements
  listeners,   \* frame element -> number of load listeners the root attached
  loads,       \* frame element -> load events fired so far
  up,          \* child -> its client is constructed (message listener attached)
  childAtoms,  \* child -> key -> locally cached value, or NoAtom
  childSubs,   \* child -> key -> callbacks subscribed
  childSeen,   \* child -> key -> callback -> value of its latest invocation
  toRoot,      \* child -> messages posted to the root window by that child, FIFO
  toChild,     \* child -> messages posted to that child's window by the root, FIFO
  lastWrite,   \* history: key -> the latest write of the key through the API
  since,       \* history: key -> frames in the broadcast set ever since that write
  used,        \* history: how much of each bound the behaviour has used, and
               \*          how many messages of other protocols were posted
  result,      \* history: how the latest registration of an existing key, lookup,
               \*          unsubscribe or destroy call ended, and the value it returned
  destroyed    \* history: the instances whose destroy() has been called

refVars == <<copy, atoms, order, subs, seen, iframes, listeners, loads, up,
             childAtoms, childSubs, childSeen, toRoot, toChild, lastWrite,
             since, used, result, destroyed>>

\* Part II: one StateManager per node of a frame tree
VARIABLES
  syncConfig,  \* node -> key -> configured direction, or Unset
  pathCheck,   \* the coordinators refuse to forward toward a frame in the path
  store,       \* node -> key -> id of the update whose value the key holds (0: initial)
  processed,   \* node -> the Set of message ids already applied
  net,         \* the STATE_UPDATE envelopes in flight
  nextId,      \* the id the next setState generates
  issued,      \* history: id -> the node and keys of the setState that made it
  applied,     \* history: node -> id -> how many times the node merged the update
  hops,        \* history: id -> envelopes sent with that id so far
  reconfigured,\* history: updateSyncConfig calls so far
  expired      \* history: ids taken out of a processed Set so far

hierVars == <<syncConfig, pathCheck, store, processed, net, nextId, issued,
              applied, hops, reconfigured, expired>>

\* Part III: one StateManager's discovery and the frames around it
VARIABLES
  embedded,    \* window.parent is another window
  parentAlive, \* the embedding window runs a coordinator that answers
  elems,       \* the iframe elements in the document
  responsive,  \* the elements whose document runs a coordinator that answers
  phase,       \* Initializing, Discovering, Ready
  parentDisc,  \* idle, pending, top, found, timeout
  childDisc,   \* idle, pending, done
  parentLink,  \* the parent handshake: idle, requested, acked, consumed
  childLink,   \* element -> its handshake: idle, requested, acked, consumed
  parentRef,   \* getParent(): the parent's window, or NoParent
  kids,        \* getChildren(): the registered child frames
  resolved,    \* history: how many times each discovery promise was resolved
  joining,     \* the elements added since, whose handshake is under way
  lastPush,    \* history: the frames the latest STATE_UPDATE push went to
  added,       \* history: the elements that were added after initialization
  removed      \* history: the elements that were removed after initialization

discVars == <<embedded, parentAlive, elems, responsive, phase, parentDisc,
              childDisc, parentLink, childLink, parentRef, kids, resolved,
              joining, lastPush, added, removed>>

\* Part IV: a frame N nested in frame A, whose window.parent is A's window
VARIABLES
  nestedUp,    \* N's client is constructed (message listener attached)
  nestedAtoms, \* N: key -> locally cached value, or NoAtom
  toMid,       \* the messages posted to A's window by N, FIFO
  toTop,       \* the messages posted to the top window by N, FIFO
  toNested     \* the messages posted to N's window, FIFO

nestVars == <<nestedUp, nestedAtoms, toMid, toTop, toNested>>

\* Part V: the four-frame legacy demo (iframe-web-app)
VARIABLES
  countAtom,   \* the root page's counter
  loaded,      \* frame -> its document has run its script (listener attached)
  toPage,      \* the messages posted to the top window, in arrival order
  toFrame,     \* frame -> the messages posted to its window, FIFO
  display,     \* frame -> the count its countDisplay shows
  clicked,     \* history: the button clicks so far, by type
  sentTo       \* history: the frames whose listener the latest count-update reached

demoVars == <<countAtom, loaded, toPage, toFrame, display, clicked, sentTo>>

\* Part VI: one cell of one frame and the callbacks subscribed to it
VARIABLES
  cellKind,        \* the JavaScript copy's atom object, or one key of the Svelte
                   \* client's state and subscribers Maps
  cellValue,       \* the cell's value, or NoAtom while the client has none
  cellSubscribers, \* the Set of callbacks, in insertion order
  calls,           \* the callback invocations the latest operation made, in order
  registeredAt,    \* history: callback -> when the subscribe call that put it in
                   \*          the Set was made (0: not subscribed)
  cellOps          \* history: operations on the cell so far

cellVars == <<cellKind, cellValue, cellSubscribers, calls, registeredAt, cellOps>>

vars == <<refVars, hierVars, discVars, nestVars, demoVars, cellVars>>

\* {type: 'atom-sync', key, value, timestamp}; the timestamp is Date.now() and no
\* receiver reads it.  why is not on the wire: it records which code path sent it.
SyncMsg(key, value, why) ==
  [type |-> "atom-sync", key |-> key, value |-> value, why |-> why]

\* {type: 'atom-sync-request', timestamp}
ReqMsg == [type |-> "atom-sync-request"]

\* this.isRoot = window.self === window.top, for the instance in the top window;
\* the Svelte copy's parent class has no role flag and always acts as the root
isRoot == TRUE

\* a broadcast that posts nothing
broadcastToNobody(ch, fs, key, value) == ch

\* a broadcast into every frame of the page, registered or not
broadcastToAll(ch, fs, key, value) ==
  [f \in Children |-> Append(ch[f], SyncMsg(key, value, "broadcast"))]

\* one postMessage per frame element of the Set
broadcastToIframes(ch, fs, key, value) ==
  [f \in Children |->
     IF f \in fs THEN Append(ch[f], SyncMsg(key, value, "broadcast")) ELSE ch[f]]

\* the value messages of one pass over the atoms Map, in insertion order
AllAtomMsgs(as, ord, why) ==
  [i \in 1..Len(ord) |-> SyncMsg(ord[i], as[ord[i]], why)]

\* one copy whatever n is
Once(s, n) == s

\* n-fold concatenation
RECURSIVE Times(_, _)
Times(s, n) == IF n = 0 THEN <<>> ELSE s \o Times(s, n - 1)

\* one postMessage per atom into the frame's window
syncToIframe(ch, f, as, ord, why) ==
  [ch EXCEPT ![f] = @ \o AllAtomMsgs(as, ord, why)]

\* a set that calls no subscriber
NotifyNobody(sn, ss, v) == sn

\* subscribers.forEach(fn => fn(newValue)) for the application callbacks
Notify(sn, ss, v) ==
  [cb \in Callbacks |-> IF cb \in ss THEN v ELSE sn[cb]]

\* a value message for key k is on its way to the root from a frame other than w
Racing(k, w) ==
  \E c \in Children \ {w} : \E i \in DOMAIN toRoot[c] :
     toRoot[c][i].type = "atom-sync" /\ toRoot[c][i].key = k

Wrote(k, who, v) ==
  /\ lastWrite' = [lastWrite EXCEPT ![k] = [by |-> who, val |-> v, racing |-> Racing(k, who)]]
  /\ since' = [since EXCEPT ![k] = iframes]

\* atom.set(v) on the root's cell: the value, then the subscribers: the broadcast
\* registered by registerAtom and the application callbacks
RootAtomSet(k, v) ==
  /\ atoms' = [atoms EXCEPT ![k] = v]
  /\ seen' = [seen EXCEPT ![k] = Notify(@, subs[k], v)]
  /\ toChild' = IF isRoot THEN broadcastToIframes(toChild, iframes, k, v) ELSE toChild

\* The behaviours start when the root page's script has run: it has constructed
\* its IframeStateSync and made some of its registerIframe and registerAtom
\* calls, in that order, it has subscribed to the theme if it registered it, and
\* the broadcasts of the initial values into the frames, whose documents are not
\* running yet, are lost.  No child client
\* exists.  The same calls are also actions, so every other order is covered.
InitialValue(k) == IF k = "theme" THEN "light" ELSE "zero"

RootSetups == {<<>>, <<"theme">>, <<"theme", "count">>}

Range(s) == {s[i] : i \in DOMAIN s}

\* how a call ended: it returned val (Null for a call that returns nothing, NoAtom
\* for undefined) or it threw
Returned(op, val) == [op |-> op, res |-> "returns", val |-> val]
Threw(op) == [op |-> op, res |-> "throws", val |-> NoAtom]
NoCall == Returned("none", Null)

InitRef ==
  /\ copy \in Copies
  /\ order \in RootSetups
  /\ atoms = [k \in Slots |-> IF k \in Range(order) THEN InitialValue(k) ELSE NoAtom]
  /\ iframes \in SUBSET Children
  /\ listeners = [f \in Children |-> IF f \in iframes THEN 1 ELSE 0]
  /\ subs = [k \in Slots |->
               IF k \in Watched /\ atoms[k] # NoAtom THEN Callbacks ELSE {}]
  /\ seen = [k \in Slots |-> [cb \in Callbacks |->
                               IF cb \in subs[k] THEN atoms[k] ELSE Never]]
  /\ loads = [f \in Children |-> 0]
  /\ up = [c \in Children |-> FALSE]
  /\ childAtoms = [c \in Children |-> [k \in Slots |-> NoAtom]]
  /\ childSubs = [c \in Children |-> [k \in Slots |-> {}]]
  /\ childSeen = [c \in Children |-> [k \in Slots |-> [cb \in Callbacks |-> Never]]]
  /\ toRoot = [c \in Children |-> <<>>]
  /\ toChild = [c \in Children |-> <<>>]
  /\ lastWrite = [k \in Keys |->
                    IF atoms[k] = NoAtom
                      THEN [by |-> "nobody", val |-> NoAtom, racing |-> FALSE]
                      ELSE [by |-> "register", val |-> atoms[k], racing |-> FALSE]]
  /\ since = [k \in Keys |-> IF atoms[k] = NoAtom THEN {} ELSE iframes]
  /\ used = [ops |-> 0, dups |-> 0, others |-> 0]
  /\ result = NoCall
  /\ destroyed = {}

\* The behaviours of the whole interface start a little later as well: the
\* script of frame A may have run too and constructed its client, whose
\* initial-sync request is still on its way.  The root has registered the theme
\* at least, and all frames of the page or none.
Started == {{}, {"A"}}

InitApi ==
  /\ copy \in Copies
  /\ order \in RootSetups \ {<<>>}
  /\ atoms = [k \in Slots |-> IF k \in Range(order) THEN InitialValue(k) ELSE NoAtom]
  /\ iframes \in {{}, Children}
  /\ listeners = [f \in Children |-> IF f \in iframes THEN 1 ELSE 0]
  /\ subs = [k \in Slots |->
               IF k \in Watched /\ atoms[k] # NoAtom THEN Callbacks ELSE {}]
  /\ seen = [k \in Slots |-> [cb \in Callbacks |->
                               IF cb \in subs[k] THEN atoms[k] ELSE Never]]
  /\ loads = [f \in Children |-> 0]
  /\ \E cs \in Started :
       /\ up = [c \in Children |-> c \in cs]
       /\ childAtoms = [c \in Children |-> [k \in Slots |->
                          IF c \in cs /\ copy # "svelte" /\ k \in Tracked(c)
                            THEN Fallback(c, k) ELSE NoAtom]]
       /\ toRoot = [c \in Children |-> IF c \in cs THEN <<ReqMsg>> ELSE <<>>]
  /\ childSubs = [c \in Children |-> [k \in Slots |-> {}]]
  /\ childSeen = [c \in Children |-> [k \in Slots |-> [cb \in Callbacks |-> Never]]]
  /\ toChild = [c \in Children |-> <<>>]
  /\ lastWrite = [k \in Keys |->
                    IF atoms[k] = NoAtom
                      THEN [by |-> "nobody", val |-> NoAtom, racing |-> FALSE]
                      ELSE [by |-> "register", val |-> atoms[k], racing |-> FALSE]]
  /\ since = [k \in Keys |-> IF atoms[k] = NoAtom THEN {} ELSE iframes]
  /\ used = [ops |-> 0, dups |-> 0, others |-> 0]
  /\ result = NoCall
  /\ destroyed = {}

\* Part I when another part runs: a root that has set nothing up
IdleRef ==
  /\ copy = "ts"
  /\ order = <<>>
  /\ atoms = [k \in Slots |-> NoAtom]
  /\ iframes = {}
  /\ listeners = [f \in Children |-> 0]
  /\ subs = [k \in Slots |-> {}]
  /\ seen = [k \in Slots |-> [cb \in Callbacks |-> Never]]
  /\ loads = [f \in Children |-> 0]
  /\ up = [c \in Children |-> FALSE]
  /\ childAtoms = [c \in Children |-> [k \in Slots |-> NoAtom]]
  /\ childSubs = [c \in Children |-> [k \in Slots |-> {}]]
  /\ childSeen = [c \in Children |-> [k \in Slots |-> [cb \in Callbacks |-> Never]]]
  /\ toRoot = [c \in Children |-> <<>>]
  /\ toChild = [c \in Children |-> <<>>]
  /\ lastWrite = [k \in Keys |-> [by |-> "nobody", val |-> NoAtom, racing |-> FALSE]]
  /\ since = [k \in Keys |-> {}]
  /\ used = [ops |-> 0, dups |-> 0, others |-> 0]
  /\ result = NoCall
  /\ destroyed = {}

\* registerAtom({key, initialValue}) in the root
\* a key that is taken: the TypeScript copy throws, the Svelte copy logs and
\* returns, and the JavaScript copy has no check and puts a new cell in the place
\* of the old one
registerAtom(k, v) ==
  /\ used.ops < MaxOps
  /\ IF atoms[k] = NoAtom
       THEN /\ order' = Append(order, k)
            /\ used' = [used EXCEPT !.ops = @ + 1]
            /\ result' = result
       ELSE /\ used.dups < MaxDups
            /\ used' = [used EXCEPT !.ops = @ + 1, !.dups = @ + 1]
            /\ order' = order
            /\ result' = IF copy = "ts" THEN Threw("registerAtom")
                                        ELSE Returned("registerAtom", Null)
  /\ IF atoms[k] = NoAtom \/ copy = "js"
       THEN /\ atoms' = [atoms EXCEPT ![k] = v]
            /\ subs' = [subs EXCEPT ![k] = {}]
            \* atom.subscribe(value => broadcastToIframes(key, value)) replays it
            /\ toChild' = IF isRoot THEN broadcastToIframes(toChild, iframes, k, v)
                                    ELSE toChild
            /\ Wrote(k, "register", v)
       ELSE UNCHANGED <<atoms, subs, toChild, lastWrite, since>>
  /\ UNCHANGED <<copy, seen, iframes, listeners, loads, up, childAtoms, childSubs,
                 childSeen, toRoot, destroyed>>
  /\ UNCHANGED <<hierVars, discVars, nestVars, demoVars, cellVars>>

\* atom.set(v) / setValue(key, v) in the root
rootSet(k, v) ==
  /\ atoms[k] # NoAtom
  /\ used.ops < MaxOps
  /\ used' = [used EXCEPT !.ops = @ + 1]
  /\ RootAtomSet(k, v)
  /\ Wrote(k, "root", v)
  /\ UNCHANGED <<copy, order, subs, iframes, listeners, loads, up, childAtoms,
                 childSubs, childSeen, toRoot>>
  /\ UNCHANGED <<result, destroyed, hierVars, discVars, nestVars, demoVars, cellVars>>

\* atom.subscribe(cb) / subscribe(key, cb) in the root
rootSubscribe(k, cb) ==
  /\ atoms[k] # NoAtom
  /\ cb \notin subs[k]
  /\ used.ops < MaxOps
  /\ used' = [used EXCEPT !.ops = @ + 1]
  /\ subs' = [subs EXCEPT ![k] = @ \cup {cb}]
  /\ seen' = [seen EXCEPT ![k][cb] = atoms[k]]
  /\ UNCHANGED <<copy, atoms, order, iframes, listeners, loads, up, childAtoms,
                 childSubs, childSeen, toRoot, toChild, lastWrite, since>>
  /\ UNCHANGED <<result, destroyed, hierVars, discVars, nestVars, demoVars, cellVars>>

\* registerIframe(iframe): into the Set, and one more load listener on the element
registerIframe(f) ==
  /\ listeners[f] < MaxListeners
  /\ used.ops < MaxOps
  /\ used' = [used EXCEPT !.ops = @ + 1]
  /\ iframes' = iframes \cup {f}
  /\ listeners' = [listeners EXCEPT ![f] = @ + 1]
  /\ UNCHANGED <<copy, atoms, order, subs, seen, loads, up, childAtoms, childSubs,
                 childSeen, toRoot, toChild, lastWrite, since>>
  /\ UNCHANGED <<result, destroyed, hierVars, discVars, nestVars, demoVars, cellVars>>

\* unregisterIframe(iframe): out of the Set; the load listener stays attached
unregisterIframe(f) ==
  /\ f \in iframes
  /\ used.ops < MaxOps
  /\ used' = [used EXCEPT !.ops = @ + 1]
  /\ iframes' = iframes \ {f}
  /\ since' = [k \in Keys |-> since[k] \ {f}]
  /\ UNCHANGED <<copy, atoms, order, subs, seen, listeners, loads, up, childAtoms,
                 childSubs, childSeen, toRoot, toChild, lastWrite>>
  /\ UNCHANGED <<result, destroyed, hierVars, discVars, nestVars, demoVars, cellVars>>

\* the element's load event: every attached listener runs syncToIframe(iframe)
frameLoad(f) ==
  /\ loads[f] < MaxLoads
  /\ listeners[f] > 0
  /\ used.ops < MaxOps
  /\ used' = [used EXCEPT !.ops = @ + 1]
  /\ loads' = [loads EXCEPT ![f] = @ + 1]
  /\ toChild' = [toChild EXCEPT
                   ![f] = @ \o Times(AllAtomMsgs(atoms, order, "load"), listeners[f])]
  /\ UNCHANGED <<copy, atoms, order, subs, seen, iframes, listeners, up, childAtoms,
                 childSubs, childSeen, toRoot, lastWrite, since>>
  /\ UNCHANGED <<result, destroyed, hierVars, discVars, nestVars, demoVars, cellVars>>

\* the element's load event while no registerIframe call has attached a listener
\* to it: no code of the library runs, and the event does not come again
frameLoadUnheard(f) ==
  /\ loads[f] < MaxLoads
  /\ listeners[f] = 0
  /\ loads' = [loads EXCEPT ![f] = @ + 1]
  /\ UNCHANGED <<copy, atoms, order, subs, seen, iframes, listeners, up, childAtoms,
                 childSubs, childSeen, toRoot, toChild, lastWrite, since, used>>
  /\ UNCHANGED <<result, destroyed, hierVars, discVars, nestVars, demoVars, cellVars>>

\* a client that also reports its fallback values to the parent
createChildClientAnnouncing(c) ==
  /\ ~up[c]
  /\ used.ops < MaxOps
  /\ used' = [used EXCEPT !.ops = @ + 1]
  /\ up' = [up EXCEPT ![c] = TRUE]
  /\ childAtoms' = [childAtoms EXCEPT
                      ![c] = [k \in Slots |->
                               IF copy # "svelte" /\ k \in Tracked(c)
                                 THEN Fallback(c, k) ELSE NoAtom]]
  /\ toRoot' = [toRoot EXCEPT
                  ![c] = Append(@, ReqMsg) \o
                         (IF copy # "svelte"
                            THEN <<SyncMsg("theme", Fallback(c, "theme"), "report")>>
                            ELSE <<>>)]
  /\ UNCHANGED <<copy, atoms, order, subs, seen, iframes, listeners, loads,
                 childSubs, childSeen, toChild, lastWrite, since>>
  /\ UNCHANGED <<result, destroyed, hierVars, discVars, nestVars, demoVars, cellVars>>

\* createChildClient(atomConfigs, options) in the frame's own document: the cells
\* with their fallback, then requestStateFromParent(); the Svelte copy's client
\* takes no atom configs and starts with an empty state Map
createChildClient(c) ==
  /\ ~up[c]
  /\ used.ops < MaxOps
  /\ used' = [used EXCEPT !.ops = @ + 1]
  /\ up' = [up EXCEPT ![c] = TRUE]
  /\ childAtoms' = [childAtoms EXCEPT
                      ![c] = [k \in Slots |->
                               IF copy # "svelte" /\ k \in Tracked(c)
                                 THEN Fallback(c, k) ELSE NoAtom]]
  /\ toRoot' = [toRoot EXCEPT ![c] = Append(@, ReqMsg)]
  /\ destroyed' = destroyed \ {c}
  /\ UNCHANGED <<copy, atoms, order, subs, seen, iframes, listeners, loads,
                 childSubs, childSeen, toChild, lastWrite, since, result>>
  /\ UNCHANGED <<hierVars, discVars, nestVars, demoVars, cellVars>>

\* an updateAtom that keeps the value to the frame
updateAtomLocally(c, k, v) ==
  /\ up[c]
  /\ copy # "svelte" => childAtoms[c][k] # NoAtom
  /\ used.ops < MaxOps
  /\ used' = [used EXCEPT !.ops = @ + 1]
  /\ childAtoms' = [childAtoms EXCEPT ![c][k] = v]
  /\ childSeen' = IF copy = "svelte" THEN childSeen
                  ELSE [childSeen EXCEPT ![c][k] = Notify(@, childSubs[c][k], v)]
  /\ Wrote(k, c, v)
  /\ UNCHANGED <<copy, atoms, order, subs, seen, iframes, listeners, loads, up,
                 childSubs, toChild, toRoot>>
  /\ UNCHANGED <<result, destroyed, hierVars, discVars, nestVars, demoVars, cellVars>>

\* js/ts: updateAtom(key, value) = atom.set(value); sync.sendToParent(key, value)
\* svelte: setValue(key, value) = state.set(key, value); postMessage, and no
\*         subscriber is called
updateAtom(c, k, v) ==
  /\ up[c]
  /\ copy # "svelte" => childAtoms[c][k] # NoAtom
  /\ used.ops < MaxOps
  /\ used' = [used EXCEPT !.ops = @ + 1]
  /\ childAtoms' = [childAtoms EXCEPT ![c][k] = v]
  /\ childSeen' = IF copy = "svelte" THEN childSeen
                  ELSE [childSeen EXCEPT ![c][k] = Notify(@, childSubs[c][k], v)]
  /\ toRoot' = [toRoot EXCEPT ![c] = Append(@, SyncMsg(k, v, "report"))]
  /\ Wrote(k, c, v)
  /\ UNCHANGED <<copy, atoms, order, subs, seen, iframes, listeners, loads, up,
                 childSubs, toChild>>
  /\ UNCHANGED <<result, destroyed, hierVars, discVars, nestVars, demoVars, cellVars>>

\* a client whose cells report every set to the parent
childAtomSetReporting(c, k, v) ==
  /\ copy # "svelte"
  /\ up[c]
  /\ childAtoms[c][k] # NoAtom
  /\ used.ops < MaxOps
  /\ used' = [used EXCEPT !.ops = @ + 1]
  /\ childAtoms' = [childAtoms EXCEPT ![c][k] = v]
  /\ childSeen' = [childSeen EXCEPT ![c][k] = Notify(@, childSubs[c][k], v)]
  /\ toRoot' = [toRoot EXCEPT ![c] = Append(@, SyncMsg(k, v, "report"))]
  /\ UNCHANGED <<copy, atoms, order, subs, seen, iframes, listeners, loads, up,
                 childSubs, toChild, lastWrite, since>>
  /\ UNCHANGED <<result, destroyed, hierVars, discVars, nestVars, demoVars, cellVars>>

\* js/ts: client.atoms[key].set(v), a set of the cell the client exposes.  The
\* client's coordinator runs in a frame (isRoot false), so registerAtom gave the
\* cell no broadcast subscriber: the value and the application's callbacks, and
\* nothing is posted.  The Svelte client exposes no cell.
childAtomSet(c, k, v) ==
  /\ copy # "svelte"
  /\ up[c]
  /\ childAtoms[c][k] # NoAtom
  /\ used.ops < MaxOps
  /\ used' = [used EXCEPT !.ops = @ + 1]
  /\ childAtoms' = [childAtoms EXCEPT ![c][k] = v]
  /\ childSeen' = [childSeen EXCEPT ![c][k] = Notify(@, childSubs[c][k], v)]
  /\ UNCHANGED <<copy, atoms, order, subs, seen, iframes, listeners, loads, up,
                 childSubs, toRoot, toChild, lastWrite, since>>
  /\ UNCHANGED <<result, destroyed, hierVars, discVars, nestVars, demoVars, cellVars>>

\* js/ts: subscribeToAtom(key, cb) = atom.subscribe(cb)
\* svelte: subscribe(key, cb), which calls cb at once only if a value is cached
subscribeToAtom(c, k, cb) ==
  /\ up[c]
  /\ copy # "svelte" => childAtoms[c][k] # NoAtom
  /\ cb \notin childSubs[c][k]
  /\ used.ops < MaxOps
  /\ used' = [used EXCEPT !.ops = @ + 1]
  /\ childSubs' = [childSubs EXCEPT ![c][k] = @ \cup {cb}]
  /\ childSeen' = IF childAtoms[c][k] = NoAtom THEN childSeen
                  ELSE [childSeen EXCEPT ![c][k][cb] = childAtoms[c][k]]
  /\ UNCHANGED <<copy, atoms, order, subs, seen, iframes, listeners, loads, up,
                 childAtoms, toRoot, toChild, lastWrite, since>>
  /\ UNCHANGED <<result, destroyed, hierVars, discVars, nestVars, demoVars, cellVars>>

\* a channel that hands over the newest message first
handleMessageNewestFirst(c) ==
  /\ toChild[c] # <<>>
  /\ toChild' = [toChild EXCEPT ![c] = SubSeq(@, 1, Len(@) - 1)]
  /\ LET m == toChild[c][Len(toChild[c])] IN
       IF /\ up[c]
          /\ m.type = "atom-sync"
          /\ copy # "svelte" => childAtoms[c][m.key] # NoAtom
         THEN /\ childAtoms' = [childAtoms EXCEPT ![c][m.key] = m.value]
              /\ childSeen' = [childSeen EXCEPT
                                 ![c][m.key] = Notify(@, childSubs[c][m.key], m.value)]
         ELSE UNCHANGED <<childAtoms, childSeen>>
  /\ UNCHANGED <<copy, atoms, order, subs, seen, iframes, listeners, loads, up,
                 childSubs, toRoot, lastWrite, since, used>>
  /\ UNCHANGED <<result, destroyed, hierVars, discVars, nestVars, demoVars, cellVars>>

\* a listener that reports every value it receives back to the parent
handleMessageEchoing(c) ==
  /\ toChild[c] # <<>>
  /\ toChild' = [toChild EXCEPT ![c] = Tail(@)]
  /\ LET m == Head(toChild[c]) IN
       IF /\ up[c]
          /\ m.type = "atom-sync"
          /\ copy # "svelte" => childAtoms[c][m.key] # NoAtom
         THEN /\ childAtoms' = [childAtoms EXCEPT ![c][m.key] = m.value]
              /\ childSeen' = [childSeen EXCEPT
                                 ![c][m.key] = Notify(@, childSubs[c][m.key], m.value)]
              /\ toRoot' = [toRoot EXCEPT
                              ![c] = Append(@, SyncMsg(m.key, m.value, "report"))]
         ELSE UNCHANGED <<childAtoms, childSeen, toRoot>>
  /\ UNCHANGED <<copy, atoms, order, subs, seen, iframes, listeners, loads, up,
                 childSubs, lastWrite, since, used>>
  /\ UNCHANGED <<result, destroyed, hierVars, discVars, nestVars, demoVars, cellVars>>

\* the child's message listener on one message from the root; a window whose
\* client is not constructed yet has no listener and the message is lost
handleMessage(c) ==
  /\ toChild[c] # <<>>
  /\ toChild' = [toChild EXCEPT ![c] = Tail(@)]
  /\ LET m == Head(toChild[c]) IN
       IF /\ up[c]
          /\ m.type = "atom-sync"
          /\ copy # "svelte" => childAtoms[c][m.key] # NoAtom
         THEN /\ childAtoms' = [childAtoms EXCEPT ![c][m.key] = m.value]
              /\ childSeen' = [childSeen EXCEPT
                                 ![c][m.key] = Notify(@, childSubs[c][m.key], m.value)]
         ELSE UNCHANGED <<childAtoms, childSeen>>
  /\ UNCHANGED <<copy, atoms, order, subs, seen, iframes, listeners, loads, up,
                 childSubs, toRoot, lastWrite, since, used>>
  /\ UNCHANGED <<result, destroyed, hierVars, discVars, nestVars, demoVars, cellVars>>

\* an answer that goes to every frame of the Set
ReplyToAll(c) ==
  [f \in Children |->
     IF f \in iframes \cup {c} THEN toChild[f] \o AllAtomMsgs(atoms, order, "reply")
                               ELSE toChild[f]]

\* the answer to an initial-sync request from window c
\* js/ts: one postMessage per atom to event.source
\* svelte: syncAllToIframe(iframe) for the registered element whose contentWindow
\*         is event.source, if there is one
ReplyTo(c) ==
  IF copy = "svelte"
    THEN IF c \in iframes THEN syncToIframe(toChild, c, atoms, order, "reply")
                          ELSE toChild
    ELSE IF isRoot THEN syncToIframe(toChild, c, atoms, order, "reply") ELSE toChild

\* a listener that makes a cell for a key it does not know
setupMessageListenerAdopting(c) ==
  /\ toRoot[c] # <<>>
  /\ toRoot' = [toRoot EXCEPT ![c] = Tail(@)]
  /\ LET m == Head(toRoot[c]) IN
       IF m.type = "atom-sync"
         THEN RootAtomSet(m.key, m.value)
         ELSE IF m.type = "atom-sync-request"
           THEN /\ toChild' = ReplyTo(c)
                /\ UNCHANGED <<atoms, seen>>
           ELSE UNCHANGED <<atoms, seen, toChild>>
  /\ UNCHANGED <<copy, order, subs, iframes, listeners, loads, up, childAtoms,
                 childSubs, childSeen, lastWrite, since, used>>
  /\ UNCHANGED <<result, destroyed, hierVars, discVars, nestVars, demoVars, cellVars>>

\* a listener whose rebroadcast spares the frame that reported the value
setupMessageListenerSparing(c) ==
  /\ toRoot[c] # <<>>
  /\ toRoot' = [toRoot EXCEPT ![c] = Tail(@)]
  /\ LET m == Head(toRoot[c]) IN
       IF m.type = "atom-sync"
         THEN IF atoms[m.key] = NoAtom
                THEN UNCHANGED <<atoms, seen, toChild>>
                ELSE /\ atoms' = [atoms EXCEPT ![m.key] = m.value]
                     /\ seen' = [seen EXCEPT ![m.key] = Notify(@, subs[m.key], m.value)]
                     /\ toChild' = broadcastToIframes(toChild, iframes \ {c},
                                                      m.key, m.value)
         ELSE IF m.type = "atom-sync-request"
           THEN /\ toChild' = ReplyTo(c)
                /\ UNCHANGED <<atoms, seen>>
           ELSE UNCHANGED <<atoms, seen, toChild>>
  /\ UNCHANGED <<copy, order, subs, iframes, listeners, loads, up, childAtoms,
                 childSubs, childSeen, lastWrite, since, used>>
  /\ UNCHANGED <<result, destroyed, hierVars, discVars, nestVars, demoVars, cellVars>>

\* a listener that takes every message that is not a value for a request
setupMessageListenerAnswering(c) ==
  /\ toRoot[c] # <<>>
  /\ toRoot' = [toRoot EXCEPT ![c] = Tail(@)]
  /\ LET m == Head(toRoot[c]) IN
       IF m.type = "atom-sync"
         THEN IF atoms[m.key] = NoAtom
                THEN UNCHANGED <<atoms, seen, toChild>>
                ELSE RootAtomSet(m.key, m.value)
         ELSE /\ toChild' = ReplyTo(c)
              /\ UNCHANGED <<atoms, seen>>
  /\ UNCHANGED <<copy, order, subs, iframes, listeners, loads, up, childAtoms,
                 childSubs, childSeen, lastWrite, since, used>>
  /\ UNCHANGED <<result, destroyed, hierVars, discVars, nestVars, demoVars, cellVars>>

\* a listener that takes values only from the windows of registered frames
setupMessageListenerRegisteredOnly(c) ==
  /\ toRoot[c] # <<>>
  /\ toRoot' = [toRoot EXCEPT ![c] = Tail(@)]
  /\ LET m == Head(toRoot[c]) IN
       IF m.type = "atom-sync"
         THEN IF atoms[m.key] = NoAtom \/ c \notin iframes
                THEN UNCHANGED <<atoms, seen, toChild>>
                ELSE RootAtomSet(m.key, m.value)
         ELSE IF m.type = "atom-sync-request"
           THEN /\ toChild' = ReplyTo(c)
                /\ UNCHANGED <<atoms, seen>>
           ELSE UNCHANGED <<atoms, seen, toChild>>
  /\ UNCHANGED <<copy, order, subs, iframes, listeners, loads, up, childAtoms,
                 childSubs, childSeen, lastWrite, since, used>>
  /\ UNCHANGED <<result, destroyed, hierVars, discVars, nestVars, demoVars, cellVars>>

\* the root's message listener on one message from window c
setupMessageListener(c) ==
  /\ toRoot[c] # <<>>
  /\ toRoot' = [toRoot EXCEPT ![c] = Tail(@)]
  /\ LET m == Head(toRoot[c]) IN
       IF m.type = "atom-sync"
         THEN IF atoms[m.key] = NoAtom
                THEN UNCHANGED <<atoms, seen, toChild>>
                ELSE RootAtomSet(m.key, m.value)
         ELSE IF m.type = "atom-sync-request"
           THEN /\ toChild' = ReplyTo(c)
                /\ UNCHANGED <<atoms, seen>>
           ELSE UNCHANGED <<atoms, seen, toChild>>
  /\ UNCHANGED <<copy, order, subs, iframes, listeners, loads, up, childAtoms,
                 childSubs, childSeen, lastWrite, since, used>>
  /\ UNCHANGED <<result, destroyed, hierVars, discVars, nestVars, demoVars, cellVars>>

\* js/ts: getAtom(key), which throws for a key that is not registered
\* svelte: getValue(key) = store?.getSnapshot().context.value, undefined for a
\*         key without store (setValue and subscribe return early in that case)
getAtom(k) ==
  /\ used.ops < MaxOps
  /\ used' = [used EXCEPT !.ops = @ + 1]
  /\ result' = IF atoms[k] # NoAtom THEN Returned("getAtom", atoms[k])
               ELSE IF copy = "svelte" THEN Returned("getAtom", NoAtom)
               ELSE Threw("getAtom")
  /\ UNCHANGED <<copy, atoms, order, subs, seen, iframes, listeners, loads, up,
                 childAtoms, childSubs, childSeen, toRoot, toChild, lastWrite,
                 since, destroyed>>
  /\ UNCHANGED <<hierVars, discVars, nestVars, demoVars, cellVars>>

\* an unsubscribe function that leaves the Set as it is
rootUnsubscribeNothing(k, cb) ==
  /\ seen[k][cb] # Never
  /\ used.ops < MaxOps
  /\ used' = [used EXCEPT !.ops = @ + 1]
  /\ result' = Returned(IF cb \in subs[k] THEN "unsubscribe" ELSE "unsubscribe again",
                        Null)
  /\ UNCHANGED <<copy, atoms, order, subs, seen, iframes, listeners, loads, up,
                 childAtoms, childSubs, childSeen, toRoot, toChild, lastWrite,
                 since, destroyed>>
  /\ UNCHANGED <<hierVars, discVars, nestVars, demoVars, cellVars>>

\* the function atom.subscribe(cb) returned, () => this.subscribers.delete(fn),
\* which the application holds once cb has been subscribed; Set.delete of an
\* absent member does nothing
rootUnsubscribe(k, cb) ==
  /\ seen[k][cb] # Never
  /\ used.ops < MaxOps
  /\ used' = [used EXCEPT !.ops = @ + 1]
  /\ subs' = [subs EXCEPT ![k] = @ \ {cb}]
  /\ result' = Returned(IF cb \in subs[k] THEN "unsubscribe" ELSE "unsubscribe again",
                        Null)
  /\ UNCHANGED <<copy, atoms, order, seen, iframes, listeners, loads, up,
                 childAtoms, childSubs, childSeen, toRoot, toChild, lastWrite,
                 since, destroyed>>
  /\ UNCHANGED <<hierVars, discVars, nestVars, demoVars, cellVars>>

\* the function the child's subscribeToAtom(key, cb) / subscribe(key, cb) returned
\* ts: () => subscription.unsubscribe(); svelte: subs.delete(callback), and the
\* key's entry goes with its last callback
unsubscribeFromAtom(c, k, cb) ==
  /\ up[c]
  /\ cb \in childSubs[c][k] \/ childSeen[c][k][cb] # Never
  /\ used.ops < MaxOps
  /\ used' = [used EXCEPT !.ops = @ + 1]
  /\ childSubs' = [childSubs EXCEPT ![c][k] = @ \ {cb}]
  /\ result' = Returned(IF cb \in childSubs[c][k] THEN "unsubscribe"
                                                  ELSE "unsubscribe again", Null)
  /\ UNCHANGED <<copy, atoms, order, subs, seen, iframes, listeners, loads, up,
                 childAtoms, childSeen, toRoot, toChild, lastWrite, since,
                 destroyed>>
  /\ UNCHANGED <<hierVars, discVars, nestVars, demoVars, cellVars>>

\* svelte: destroy() of the coordinator = this.stores.clear(); this.iframes.clear().
\* The window's message listener and the elements' load listeners stay attached,
\* and the object goes on accepting calls.  The other copies have no destroy.
destroy ==
  /\ copy = "svelte"
  /\ used.ops < MaxOps
  /\ used' = [used EXCEPT !.ops = @ + 1]
  /\ atoms' = [k \in Slots |-> NoAtom]
  /\ order' = <<>>
  /\ subs' = [k \in Slots |-> {}]
  /\ iframes' = {}
  /\ lastWrite' = [k \in Keys |-> [by |-> "nobody", val |-> NoAtom, racing |-> FALSE]]
  /\ since' = [k \in Keys |-> {}]
  /\ destroyed' = destroyed \cup {"root"}
  /\ result' = Returned(IF "root" \in destroyed THEN "destroy again" ELSE "destroy",
                        Null)
  /\ UNCHANGED <<copy, seen, listeners, loads, up, childAtoms, childSubs,
                 childSeen, toRoot, toChild>>
  /\ UNCHANGED <<hierVars, discVars, nestVars, demoVars, cellVars>>

\* svelte: destroy() of a child's client = removeEventListener('message',
\* handleMessage); state.clear(); subscribers.clear(); the object stays and
\* destroy() can be called on it again
destroyClient(c) ==
  /\ copy = "svelte"
  /\ up[c] \/ c \in destroyed
  /\ used.ops < MaxOps
  /\ used' = [used EXCEPT !.ops = @ + 1]
  /\ up' = [up EXCEPT ![c] = FALSE]
  /\ childAtoms' = [childAtoms EXCEPT ![c] = [k \in Slots |-> NoAtom]]
  /\ childSubs' = [childSubs EXCEPT ![c] = [k \in Slots |-> {}]]
  /\ destroyed' = destroyed \cup {c}
  /\ result' = Returned(IF c \in destroyed THEN "destroy again" ELSE "destroy", Null)
  /\ UNCHANGED <<copy, atoms, order, subs, seen, iframes, listeners, loads,
                 childSeen, toRoot, toChild, lastWrite, since>>
  /\ UNCHANGED <<hierVars, discVars, nestVars, demoVars, cellVars>>

\* the keys a child's client was given a config for at construction; the Svelte
\* copy's createChildClient(options) takes none
Configured(c) == IF copy = "svelte" THEN {} ELSE Tracked(c)

\* js/ts: getAtomValue(key), which throws for a key without local atom
\* svelte: getValue(key) = state.get(key), undefined for a key not in the Map
getAtomValue(c, k) ==
  /\ up[c]
  /\ used.ops < MaxOps
  /\ used' = [used EXCEPT !.ops = @ + 1]
  /\ result' = IF childAtoms[c][k] # NoAtom
                 THEN Returned("getAtomValue", childAtoms[c][k])
               ELSE IF copy = "svelte" THEN Returned("getAtomValue", NoAtom)
               ELSE Threw("getAtomValue")
  /\ UNCHANGED <<copy, atoms, order, subs, seen, iframes, listeners, loads, up,
                 childAtoms, childSubs, childSeen, toRoot, toChild, lastWrite,
                 since, destroyed>>
  /\ UNCHANGED <<hierVars, discVars, nestVars, demoVars, cellVars>>

NextRef ==
  \/ \E k \in Keys : registerAtom(k, InitialValue(k))
  \/ \E k \in Keys : \E v \in ValuesOf(k) : rootSet(k, v)
  \/ \E k \in Watched, cb \in Callbacks : rootSubscribe(k, cb)
  \/ \E f \in Children : registerIframe(f)
  \/ \E f \in Children : unregisterIframe(f)
  \/ \E f \in Children : frameLoad(f)
  \/ \E c \in Children : createChildClient(c)
  \/ \E c \in Children, k \in Keys : \E v \in ValuesOf(k) : updateAtom(c, k, v)
  \/ \E c \in Children, k \in Watched, cb \in Callbacks : subscribeToAtom(c, k, cb)
  \/ \E c \in Children : handleMessage(c)
  \/ \E c \in Children : setupMessageListener(c)

\* the set-up of a page and nothing else: the root's registrations, the frames'
\* load events, the clients' construction with its request, and the deliveries
NextSetup ==
  \/ \E k \in Keys : registerAtom(k, InitialValue(k))
  \/ \E f \in Children : registerIframe(f)
  \/ \E f \in Children : frameLoad(f)
  \/ \E f \in Children : frameLoadUnheard(f)
  \/ \E c \in Children : createChildClient(c)
  \/ \E c \in Children : handleMessage(c)
  \/ \E c \in Children : setupMessageListener(c)

\* the frames' side of the library, with the cells a client exposes
NextChild ==
  \/ \E k \in Keys : \E v \in ValuesOf(k) : rootSet(k, v)
  \/ \E c \in Children : createChildClient(c)
  \/ \E c \in Children, k \in Watched, cb \in Callbacks : subscribeToAtom(c, k, cb)
  \/ \E c \in Children, k \in Keys : \E v \in ValuesOf(k) : childAtomSet(c, k, v)
  \/ \E c \in Children, k \in Keys : \E v \in ValuesOf(k) : updateAtom(c, k, v)
  \/ \E c \in Children : handleMessage(c)
  \/ \E c \in Children : setupMessageListener(c)

\* the whole interface of the library: the calls above, the lookups, the
\* unsubscribe functions and destroy()
NextApi ==
  \/ NextRef
  \/ \E k \in Keys : getAtom(k)
  \/ \E c \in Children, k \in Keys : getAtomValue(c, k)
  \/ \E k \in Watched, cb \in Callbacks : rootUnsubscribe(k, cb)
  \/ \E c \in Children, k \in Watched, cb \in Callbacks : unsubscribeFromAtom(c, k, cb)
  \/ destroy
  \/ \E c \in Children : destroyClient(c)

(***************************************************************************)
(* Part II - the hierarchical StateManager (design.md; never built)        *)
(***************************************************************************)
\* setState calls in one behaviour
MaxSets == 1
\* updateSyncConfig calls in one behaviour
MaxConfigs == 1
\* processed ids that reach their time-to-live in one behaviour
MaxExpiries == 1

\* a root with two embedded frames, one of which embeds a frame of its own
Nodes == {"R", "M", "S", "L"}
NoParent == "none"
ParentOf(n) == CASE n = "M" -> "R" [] n = "S" -> "R" [] n = "L" -> "M" [] OTHER -> NoParent
ChildrenOf(n) == {c \in Nodes : ParentOf(c) = n}
\* the windows a node exchanges envelopes with
Links == {<<n, t>> \in Nodes \X Nodes : ParentOf(n) = t \/ ParentOf(t) = n}

HKeys == {"a", "b"}
Directions == {"up", "down", "bidirectional", "local"}
Unset == "unset"
Ids == 1..MaxSets

\* the nodes whose application changes its configuration at runtime, and the key
\* whose direction it changes
Reconfigurers == {"R", "M"}
Reconfigured == {"a"}

\* every direction, or none, for key a; key b unconfigured, upward or local
SyncConfigs ==
  {cfg \in [HKeys -> Directions \cup {Unset}] : cfg["b"] \in {Unset, "up", "local"}}

\* StateStore.getSyncDirection(key): bidirectional when unconfigured
getSyncDirection(n, k) ==
  IF syncConfig[n][k] = Unset THEN "bidirectional" ELSE syncConfig[n][k]

\* a direction table in which everything but local goes up
shouldSyncUpUnlessLocal(n, k) == getSyncDirection(n, k) # "local"

\* StateStore.shouldSyncUp(key)
shouldSyncUp(n, k) == getSyncDirection(n, k) \in {"up", "bidirectional"}

\* a direction table in which everything but local goes down
shouldSyncDownUnlessLocal(n, k) == getSyncDirection(n, k) # "local"

\* StateStore.shouldSyncDown(key)
shouldSyncDown(n, k) == getSyncDirection(n, k) \in {"down", "bidirectional"}

\* a STATE_UPDATE envelope: payload {updates, messageId, originWindow, path}; the
\* value of each key of updates is the one the setState of that id wrote
Envelope(id, from, to, keys, path) ==
  [id |-> id, from |-> from, to |-> to, keys |-> keys, path |-> path]

\* a coordinator that forwards whatever the path says
MayForwardToAnyone(t, path) == TRUE

\* the frame may be sent to: with the path check, not a frame the update has
\* already traversed
MayForwardTo(t, path) == ~pathCheck \/ t \notin Range(path)

\* forwarding that only continues the way the update was travelling
OutboundSameWay(n, id, keys, path) ==
  LET upKeys == {k \in keys : shouldSyncUp(n, k)}
      downKeys == {k \in keys : shouldSyncDown(n, k)}
      last == path[Len(path) - 1]
  IN  (IF /\ ParentOf(n) # NoParent /\ upKeys # {}
             /\ (Len(path) = 1 \/ ParentOf(last) = n)
          THEN {Envelope(id, n, ParentOf(n), upKeys, path)} ELSE {})
      \cup {Envelope(id, n, c, downKeys, path) : c \in
              {d \in ChildrenOf(n) :
                 downKeys # {} /\ (Len(path) = 1 \/ ParentOf(n) = last)}}

\* outbound propagation of an update held by node n: the keys that sync up
\* toward the parent, the keys that sync down toward every child
Outbound(n, id, keys, path) ==
  LET upKeys == {k \in keys : shouldSyncUp(n, k)}
      downKeys == {k \in keys : shouldSyncDown(n, k)}
  IN  (IF ParentOf(n) # NoParent /\ upKeys # {} /\ MayForwardTo(ParentOf(n), path)
          THEN {Envelope(id, n, ParentOf(n), upKeys, path)} ELSE {})
      \cup {Envelope(id, n, c, downKeys, path) : c \in
              {d \in ChildrenOf(n) : downKeys # {} /\ MayForwardTo(d, path)}}

\* a store that compares timestamps: a key keeps the value of the later setState
mergeNewest(st, keys, id) ==
  [k \in HKeys |-> IF k \in keys /\ id > st[k] THEN id ELSE st[k]]

\* StateStore.merge(updates, source): each key of updates overwrites
merge(st, keys, id) == [k \in HKeys |-> IF k \in keys THEN id ELSE st[k]]

InitHier ==
  /\ \E cfg \in SyncConfigs : syncConfig = [n \in Nodes |-> cfg]
  /\ pathCheck \in BOOLEAN
  /\ store = [n \in Nodes |-> [k \in HKeys |-> 0]]
  /\ processed = [n \in Nodes |-> {}]
  /\ net = {}
  /\ nextId = 1
  /\ issued = [i \in Ids |-> [by |-> NoParent, keys |-> {}]]
  /\ applied = [n \in Nodes |-> [i \in Ids |-> 0]]
  /\ hops = [i \in Ids |-> 0]
  /\ reconfigured = 0
  /\ expired = 0

\* the tree when processed ids expire: key a is unconfigured or goes up, key b is
\* unconfigured, and the coordinators make the path check or do not
InitExpiry ==
  /\ \E d \in {Unset, "up"} :
       syncConfig = [n \in Nodes |-> [k \in HKeys |-> IF k = "a" THEN d ELSE Unset]]
  /\ pathCheck \in BOOLEAN
  /\ store = [n \in Nodes |-> [k \in HKeys |-> 0]]
  /\ processed = [n \in Nodes |-> {}]
  /\ net = {}
  /\ nextId = 1
  /\ issued = [i \in Ids |-> [by |-> NoParent, keys |-> {}]]
  /\ applied = [n \in Nodes |-> [i \in Ids |-> 0]]
  /\ hops = [i \in Ids |-> 0]
  /\ reconfigured = 0
  /\ expired = 0

\* the tree when configurations change at runtime: key a starts local or
\* unconfigured, key b is unconfigured, and the path check is on
InitConfig ==
  /\ \E d \in {"local", Unset} :
       syncConfig = [n \in Nodes |-> [k \in HKeys |-> IF k = "a" THEN d ELSE Unset]]
  /\ pathCheck = TRUE
  /\ store = [n \in Nodes |-> [k \in HKeys |-> 0]]
  /\ processed = [n \in Nodes |-> {}]
  /\ net = {}
  /\ nextId = 1
  /\ issued = [i \in Ids |-> [by |-> NoParent, keys |-> {}]]
  /\ applied = [n \in Nodes |-> [i \in Ids |-> 0]]
  /\ hops = [i \in Ids |-> 0]
  /\ reconfigured = 0
  /\ expired = 0

\* the other parts when only one part runs
IdleHier ==
  /\ syncConfig = [n \in Nodes |-> [k \in HKeys |-> Unset]]
  /\ pathCheck = TRUE
  /\ store = [n \in Nodes |-> [k \in HKeys |-> 0]]
  /\ processed = [n \in Nodes |-> {}]
  /\ net = {}
  /\ nextId = 1
  /\ issued = [i \in Ids |-> [by |-> NoParent, keys |-> {}]]
  /\ applied = [n \in Nodes |-> [i \in Ids |-> 0]]
  /\ hops = [i \in Ids |-> 0]
  /\ reconfigured = 0
  /\ expired = 0

\* setState(partialUpdate) at node n: merge, remember the id, propagate
setState(n, keys) ==
  /\ nextId \in Ids
  /\ nextId' = nextId + 1
  /\ store' = [store EXCEPT ![n] = merge(@, keys, nextId)]
  /\ processed' = [processed EXCEPT ![n] = @ \cup {nextId}]
  /\ net' = net \cup Outbound(n, nextId, keys, <<n>>)
  /\ issued' = [issued EXCEPT ![nextId] = [by |-> n, keys |-> keys]]
  /\ applied' = [applied EXCEPT ![n][nextId] = @ + 1]
  /\ hops' = [hops EXCEPT ![nextId] = @ + Cardinality(Outbound(n, nextId, keys, <<n>>))]
  /\ UNCHANGED <<syncConfig, pathCheck, reconfigured, expired>>
  /\ UNCHANGED <<refVars, discVars, nestVars, demoVars, cellVars>>

\* a receiver that keeps no record of the ids it has applied
onStateUpdateAgain(m) ==
  /\ m \in net
  /\ store' = [store EXCEPT ![m.to] = merge(@, m.keys, m.id)]
  /\ processed' = processed
  /\ applied' = [applied EXCEPT ![m.to][m.id] = @ + 1]
  /\ net' = (net \ {m}) \cup Outbound(m.to, m.id, m.keys, Append(m.path, m.to))
  /\ hops' = [hops EXCEPT ![m.id] =
                @ + Cardinality(Outbound(m.to, m.id, m.keys, Append(m.path, m.to)))]
  /\ UNCHANGED <<syncConfig, pathCheck, nextId, issued, reconfigured, expired>>
  /\ UNCHANGED <<refVars, discVars, nestVars, demoVars, cellVars>>

\* the STATE_UPDATE handler of the node the envelope was sent to: an id already
\* in the processed Set is dropped; otherwise merge, remember the id, forward
onStateUpdate(m) ==
  /\ m \in net
  /\ IF m.id \in processed[m.to]
       THEN /\ net' = net \ {m}
            /\ UNCHANGED <<store, processed, applied, hops>>
       ELSE /\ store' = [store EXCEPT ![m.to] = merge(@, m.keys, m.id)]
            /\ processed' = [processed EXCEPT ![m.to] = @ \cup {m.id}]
            /\ applied' = [applied EXCEPT ![m.to][m.id] = @ + 1]
            /\ net' = (net \ {m}) \cup Outbound(m.to, m.id, m.keys, Append(m.path, m.to))
            /\ hops' = [hops EXCEPT ![m.id] =
                          @ + Cardinality(Outbound(m.to, m.id, m.keys, Append(m.path, m.to)))]
  /\ UNCHANGED <<syncConfig, pathCheck, nextId, issued, reconfigured, expired>>
  /\ UNCHANGED <<refVars, discVars, nestVars, demoVars, cellVars>>

\* a configuration change that withdraws the envelopes that are on their way
updateSyncConfigRecalling(n, k, d) ==
  /\ reconfigured < MaxConfigs
  /\ reconfigured' = reconfigured + 1
  /\ syncConfig' = [syncConfig EXCEPT ![n][k] = d]
  /\ net' = {}
  /\ UNCHANGED <<pathCheck, store, processed, nextId, issued, applied, hops, expired>>
  /\ UNCHANGED <<refVars, discVars, nestVars, demoVars, cellVars>>

\* updateSyncConfig(partialConfig) at node n, one key at a time: merged into the
\* active configuration, which the next propagation reads
updateSyncConfig(n, k, d) ==
  /\ reconfigured < MaxConfigs
  /\ reconfigured' = reconfigured + 1
  /\ syncConfig' = [syncConfig EXCEPT ![n][k] = d]
  /\ UNCHANGED <<pathCheck, store, processed, net, nextId, issued, applied, hops,
                 expired>>
  /\ UNCHANGED <<refVars, discVars, nestVars, demoVars, cellVars>>

NextHier ==
  \/ \E n \in Nodes : \E keys \in (SUBSET HKeys) \ {{}} : setState(n, keys)
  \/ \E m \in net : onStateUpdate(m)

\* the time-to-live of a processed id runs out at node n: the id leaves the Set.
\* (When it does is the timer's business: any moment after the id went in.)
expire(n, id) ==
  /\ expired < MaxExpiries
  /\ id \in processed[n]
  /\ expired' = expired + 1
  /\ processed' = [processed EXCEPT ![n] = @ \ {id}]
  /\ UNCHANGED <<syncConfig, pathCheck, store, net, nextId, issued, applied, hops,
                 reconfigured>>
  /\ UNCHANGED <<refVars, discVars, nestVars, demoVars, cellVars>>

\* the frames whose application sets key a while ids expire: the two leaves
Issuers == {"S", "L"}

\* the tree with processed ids that expire
NextExpiry ==
  \/ \E n \in Issuers : setState(n, {"a"})
  \/ \E m \in net : onStateUpdate(m)
  \/ \E n \in Nodes, id \in Ids : expire(n, id)

\* two updates that race: the setState that wrote Older ran first, so its
\* envelopes carry the older timestamp
Older == 1
Newer == 2
Concurrent == {Older, Newer}

\* the tree right after two setState calls, at frames u1 and then u2, of which
\* no envelope has been delivered yet; every key is unconfigured
InitMerge ==
  /\ syncConfig = [n \in Nodes |-> [k \in HKeys |-> Unset]]
  /\ pathCheck \in BOOLEAN
  /\ \E u1 \in Nodes, u2 \in Nodes :
       \E keys1 \in (SUBSET HKeys) \ {{}}, keys2 \in (SUBSET HKeys) \ {{}} :
         /\ store = [n \in Nodes |->
                       merge(merge([k \in HKeys |-> 0],
                                   IF n = u1 THEN keys1 ELSE {}, Older),
                             IF n = u2 THEN keys2 ELSE {}, Newer)]
         /\ processed = [n \in Nodes |-> (IF n = u1 THEN {Older} ELSE {})
                                            \cup (IF n = u2 THEN {Newer} ELSE {})]
         /\ net = Outbound(u1, Older, keys1, <<u1>>)
                    \cup Outbound(u2, Newer, keys2, <<u2>>)
         /\ issued = [i \in Concurrent |-> IF i = Older THEN [by |-> u1, keys |-> keys1]
                                                    ELSE [by |-> u2, keys |-> keys2]]
         /\ applied = [n \in Nodes |-> [i \in Concurrent |->
                         IF (i = Older /\ n = u1) \/ (i = Newer /\ n = u2) THEN 1 ELSE 0]]
         /\ hops = [i \in Concurrent |->
                      IF i = Older THEN Cardinality(Outbound(u1, Older, keys1, <<u1>>))
                                   ELSE Cardinality(Outbound(u2, Newer, keys2, <<u2>>))]
  /\ nextId = Newer + 1
  /\ reconfigured = 0
  /\ expired = 0

\* the tree delivering the envelopes of the two updates, in any order
NextMerge == \E m \in net : onStateUpdate(m)

\* the tree with applications that change their configuration at runtime
NextConfig ==
  \/ NextHier
  \/ \E n \in Reconfigurers, k \in Reconfigured, d \in Directions :
       updateSyncConfig(n, k, d)

(***************************************************************************)
(* Part III - discovery of one StateManager (design.md; never built)       *)
(***************************************************************************)
Elems == {"e1", "e2"}

\* StateManager.isRoot(): the coordinator has no parent
isRootManager == parentRef = NoParent

\* StateManager.getParent()
getParent == parentRef

\* StateManager.getChildren()
getChildren == kids

InitDisc ==
  /\ embedded \in BOOLEAN
  /\ parentAlive \in BOOLEAN
  /\ embedded \/ ~parentAlive
  /\ elems \in SUBSET Elems
  /\ responsive \in SUBSET Elems
  /\ phase = "Initializing"
  /\ parentDisc = "idle"
  /\ childDisc = "idle"
  /\ parentLink = "idle"
  /\ childLink = [e \in Elems |-> "idle"]
  /\ parentRef = NoParent
  /\ kids = {}
  /\ resolved = [parent |-> 0, child |-> 0]
  /\ joining = {}
  /\ lastPush = {}
  /\ added = {}
  /\ removed = {}

IdleDisc ==
  /\ embedded = FALSE
  /\ parentAlive = FALSE
  /\ elems = {}
  /\ responsive = {}
  /\ phase = "Initializing"
  /\ parentDisc = "idle"
  /\ childDisc = "idle"
  /\ parentLink = "idle"
  /\ childLink = [e \in Elems |-> "idle"]
  /\ parentRef = NoParent
  /\ kids = {}
  /\ resolved = [parent |-> 0, child |-> 0]
  /\ joining = {}
  /\ lastPush = {}
  /\ added = {}
  /\ removed = {}

\* initialize(config): both discoveries start.  discoverParent resolves at once
\* to "no parent" in a top-level window and otherwise posts DISCOVER_PARENT to
\* window.parent and starts its timer; discoverChildren posts DISCOVER_CHILDREN
\* into every iframe element of the document and starts its timer
initialize ==
  /\ phase = "Initializing"
  /\ phase' = "Discovering"
  /\ IF embedded
       THEN /\ parentDisc' = "pending"
            /\ parentLink' = "requested"
            /\ resolved' = resolved
       ELSE /\ parentDisc' = "top"
            /\ parentLink' = parentLink
            /\ resolved' = [resolved EXCEPT !.parent = @ + 1]
  /\ childDisc' = "pending"
  /\ childLink' = [e \in Elems |-> IF e \in elems THEN "requested" ELSE "idle"]
  /\ UNCHANGED <<embedded, parentAlive, elems, responsive, parentRef, kids>>
  /\ UNCHANGED <<joining, lastPush, added, removed, refVars, hierVars, nestVars, demoVars, cellVars>>

\* the embedding window's coordinator acknowledges the request
parentAcks ==
  /\ parentAlive
  /\ parentLink = "requested"
  /\ parentLink' = "acked"
  /\ UNCHANGED <<embedded, parentAlive, elems, responsive, phase, parentDisc,
                 childDisc, childLink, parentRef, kids, resolved>>
  /\ UNCHANGED <<joining, lastPush, added, removed, refVars, hierVars, nestVars, demoVars, cellVars>>

\* an acknowledgement handler that registers no parent
onParentAckDropped ==
  /\ parentLink = "acked"
  /\ parentLink' = "consumed"
  /\ parentDisc' = IF parentDisc = "pending" THEN "found" ELSE parentDisc
  /\ resolved' = IF parentDisc = "pending"
                   THEN [resolved EXCEPT !.parent = @ + 1] ELSE resolved
  /\ UNCHANGED <<embedded, parentAlive, elems, responsive, phase, childDisc,
                 childLink, parentRef, kids>>
  /\ UNCHANGED <<joining, lastPush, added, removed, refVars, hierVars, nestVars, demoVars, cellVars>>

\* the parent's acknowledgement arrives: it resolves a pending discoverParent
\* and the coordinator registers as a child; after the timeout it is ignored
onParentAck ==
  /\ parentLink = "acked"
  /\ parentLink' = "consumed"
  /\ IF parentDisc = "pending"
       THEN /\ parentDisc' = "found"
            /\ parentRef' = "parent"
            /\ resolved' = [resolved EXCEPT !.parent = @ + 1]
       ELSE UNCHANGED <<parentDisc, parentRef, resolved>>
  /\ UNCHANGED <<embedded, parentAlive, elems, responsive, phase, childDisc,
                 childLink, kids>>
  /\ UNCHANGED <<joining, lastPush, added, removed, refVars, hierVars, nestVars, demoVars, cellVars>>

\* a timer that is torn down and never fires
timerLost ==
  /\ FALSE
  /\ UNCHANGED vars

\* discoverParent's timer fires first: no parent responded, and the coordinator
\* goes on as the root
parentTimeout ==
  /\ parentDisc = "pending"
  /\ parentDisc' = "timeout"
  /\ resolved' = [resolved EXCEPT !.parent = @ + 1]
  /\ UNCHANGED <<embedded, parentAlive, elems, responsive, phase, childDisc,
                 parentLink, childLink, parentRef, kids>>
  /\ UNCHANGED <<joining, lastPush, added, removed, refVars, hierVars, nestVars, demoVars, cellVars>>

\* the coordinator in element e's document acknowledges
childAcks(e) ==
  /\ e \in responsive
  /\ childLink[e] = "requested"
  /\ childLink' = [childLink EXCEPT ![e] = "acked"]
  /\ UNCHANGED <<embedded, parentAlive, elems, responsive, phase, parentDisc,
                 childDisc, parentLink, parentRef, kids, resolved>>
  /\ UNCHANGED <<joining, lastPush, added, removed, refVars, hierVars, nestVars, demoVars, cellVars>>

\* an acknowledgement handler that registers the frame whenever it answers
onChildAckAlways(e) ==
  /\ childLink[e] = "acked"
  /\ childLink' = [childLink EXCEPT ![e] = "consumed"]
  /\ kids' = kids \cup {e}
  /\ joining' = joining \ {e}
  /\ UNCHANGED <<embedded, parentAlive, elems, responsive, phase, parentDisc,
                 childDisc, parentLink, parentRef, resolved>>
  /\ UNCHANGED <<lastPush, added, removed, refVars, hierVars, nestVars, demoVars, cellVars>>

\* a child's acknowledgement arrives: within the timeout of its handshake, the
\* initial discovery or the one of an added element, the frame is registered as
\* a child; afterwards it is ignored
onChildAck(e) ==
  /\ childLink[e] = "acked"
  /\ childLink' = [childLink EXCEPT ![e] = "consumed"]
  /\ kids' = IF childDisc = "pending" \/ e \in joining THEN kids \cup {e} ELSE kids
  /\ joining' = joining \ {e}
  /\ UNCHANGED <<embedded, parentAlive, elems, responsive, phase, parentDisc,
                 childDisc, parentLink, parentRef, resolved>>
  /\ UNCHANGED <<lastPush, added, removed, refVars, hierVars, nestVars, demoVars, cellVars>>

\* discoverChildren's timer fires: it resolves with the frames that have
\* acknowledged, and the others are left out
childTimeout ==
  /\ childDisc = "pending"
  /\ childDisc' = "done"
  /\ resolved' = [resolved EXCEPT !.child = @ + 1]
  /\ UNCHANGED <<embedded, parentAlive, elems, responsive, phase, parentDisc,
                 parentLink, childLink, parentRef, kids>>
  /\ UNCHANGED <<joining, lastPush, added, removed, refVars, hierVars, nestVars, demoVars, cellVars>>

\* both discoveries have resolved: the coordinator is Ready
becomeReady ==
  /\ phase = "Discovering"
  /\ parentDisc \in {"top", "found", "timeout"}
  /\ childDisc = "done"
  /\ phase' = "Ready"
  /\ UNCHANGED <<embedded, parentAlive, elems, responsive, parentDisc, childDisc,
                 parentLink, childLink, parentRef, kids, resolved>>
  /\ UNCHANGED <<joining, lastPush, added, removed, refVars, hierVars, nestVars, demoVars, cellVars>>

\* onChildAdded: the MutationObserver reports a new iframe element, and the
\* coordinator, which stays as it is, starts a handshake with it
onChildAdded(e) ==
  /\ phase = "Ready"
  /\ e \notin elems
  /\ elems' = elems \cup {e}
  /\ childLink' = [childLink EXCEPT ![e] = "requested"]
  /\ joining' = joining \cup {e}
  /\ added' = added \cup {e}
  /\ UNCHANGED <<embedded, parentAlive, responsive, phase, parentDisc, childDisc,
                 parentLink, parentRef, kids, resolved, lastPush, removed>>
  /\ UNCHANGED <<refVars, hierVars, nestVars, demoVars, cellVars>>

\* the timer of an added element's handshake fires: the element is left out
joinTimeout(e) ==
  /\ e \in joining
  /\ joining' = joining \ {e}
  /\ UNCHANGED <<embedded, parentAlive, elems, responsive, phase, parentDisc,
                 childDisc, parentLink, childLink, parentRef, kids, resolved,
                 lastPush, added, removed>>
  /\ UNCHANGED <<refVars, hierVars, nestVars, demoVars, cellVars>>

\* a removal that leaves the frame in the children registry
onChildRemovedKept(e) ==
  /\ phase = "Ready"
  /\ e \in elems
  /\ elems' = elems \ {e}
  /\ joining' = joining \ {e}
  /\ childLink' = [childLink EXCEPT ![e] = "idle"]
  /\ removed' = removed \cup {e}
  /\ UNCHANGED <<embedded, parentAlive, responsive, phase, parentDisc, childDisc,
                 parentLink, parentRef, kids, resolved, lastPush, added>>
  /\ UNCHANGED <<refVars, hierVars, nestVars, demoVars, cellVars>>

\* onChildRemoved: the MutationObserver reports that an iframe element is gone;
\* unregisterChild and cleanup of what refers to it, its handshake included
onChildRemoved(e) ==
  /\ phase = "Ready"
  /\ e \in elems
  /\ elems' = elems \ {e}
  /\ kids' = kids \ {e}
  /\ joining' = joining \ {e}
  /\ childLink' = [childLink EXCEPT ![e] = "idle"]
  /\ removed' = removed \cup {e}
  /\ UNCHANGED <<embedded, parentAlive, responsive, phase, parentDisc, childDisc,
                 parentLink, parentRef, resolved, lastPush, added>>
  /\ UNCHANGED <<refVars, hierVars, nestVars, demoVars, cellVars>>

\* a state update is broadcast down: one STATE_UPDATE to each registered child
broadcastDown ==
  /\ phase = "Ready"
  /\ lastPush' = getChildren
  /\ UNCHANGED <<embedded, parentAlive, elems, responsive, phase, parentDisc,
                 childDisc, parentLink, childLink, parentRef, kids, resolved,
                 joining, added, removed>>
  /\ UNCHANGED <<refVars, hierVars, nestVars, demoVars, cellVars>>

NextDisc ==
  \/ initialize
  \/ parentAcks
  \/ onParentAck
  \/ parentTimeout
  \/ \E e \in Elems : childAcks(e)
  \/ \E e \in Elems : onChildAck(e)
  \/ childTimeout
  \/ becomeReady
  \/ \E e \in Elems : onChildAdded(e)
  \/ \E e \in Elems : joinTimeout(e)
  \/ \E e \in Elems : onChildRemoved(e)
  \/ broadcastDown

(***************************************************************************)
(* Part IV - nesting and roles in the reference library                    *)
(***************************************************************************)
\* Part IV when another part runs: the nested frame's document never runs
IdleNest ==
  /\ nestedUp = FALSE
  /\ nestedAtoms = [k \in Keys |-> NoAtom]
  /\ toMid = <<>>
  /\ toTop = <<>>
  /\ toNested = <<>>

\* the one config N's page passes to createChildClient (js/ts)
NestedTracked == {"theme"}
NestedFallback(k) == "dark"

\* a message of some other protocol that shares the window ({type: 'resize'})
OtherMsg == [type |-> "resize"]

\* the page with the nested frame once the root's script and frame A's script
\* have run: the root has registered both frames and the theme, perhaps the
\* count, and subscribed to the theme; A's client is constructed and subscribed
\* to the theme, and its initial-sync request may still be on its way
InitNest ==
  /\ copy \in Copies
  /\ order \in RootSetups \ {<<>>}
  /\ atoms = [k \in Slots |-> IF k \in Range(order) THEN InitialValue(k) ELSE NoAtom]
  /\ iframes = Children
  /\ listeners = [f \in Children |-> 1]
  /\ subs = [k \in Slots |-> IF k \in Watched THEN Callbacks ELSE {}]
  /\ seen = [k \in Slots |-> [cb \in Callbacks |->
                               IF cb \in subs[k] THEN atoms[k] ELSE Never]]
  /\ loads = [f \in Children |-> 0]
  /\ up = [c \in Children |-> c = "A"]
  /\ childAtoms = [c \in Children |-> [k \in Slots |->
                     IF c = "A" /\ copy # "svelte" /\ k \in Tracked(c)
                       THEN Fallback(c, k) ELSE NoAtom]]
  /\ childSubs = [c \in Children |-> [k \in Slots |->
                    IF c = "A" /\ k \in Watched THEN {"cb1"} ELSE {}]]
  /\ childSeen = [c \in Children |-> [k \in Slots |-> [cb \in Callbacks |->
                    IF cb \in childSubs[c][k] /\ childAtoms[c][k] # NoAtom
                      THEN childAtoms[c][k] ELSE Never]]]
  /\ toRoot \in {[c \in Children |-> <<>>],
                 [c \in Children |-> IF c = "A" THEN <<ReqMsg>> ELSE <<>>]}
  /\ toChild = [c \in Children |-> <<>>]
  /\ lastWrite = [k \in Keys |->
                    IF atoms[k] = NoAtom
                      THEN [by |-> "nobody", val |-> NoAtom, racing |-> FALSE]
                      ELSE [by |-> "register", val |-> atoms[k], racing |-> FALSE]]
  /\ since = [k \in Keys |-> IF atoms[k] = NoAtom THEN {} ELSE iframes]
  /\ used = [ops |-> 0, dups |-> 0, others |-> 0]
  /\ result = NoCall
  /\ destroyed = {}
  /\ IdleNest

\* a sendToParent without the role check: in the top window window.parent is the
\* window itself, so the message comes back to the root's own listener
sendToParentUnguarded(k, v) ==
  /\ copy # "svelte"
  /\ used.ops < MaxOps
  /\ used' = [used EXCEPT !.ops = @ + 1]
  /\ result' = Returned("sendToParent", Null)
  /\ toTop' = Append(toTop, SyncMsg(k, v, "report"))
  /\ UNCHANGED <<copy, atoms, order, subs, seen, iframes, listeners, loads, up,
                 childAtoms, childSubs, childSeen, toRoot, toChild, lastWrite,
                 since, destroyed>>
  /\ UNCHANGED <<nestedUp, nestedAtoms, toMid, toNested>>
  /\ UNCHANGED <<hierVars, discVars, demoVars, cellVars>>

\* sendToParent(key, value) called on the root's coordinator (js/ts):
\* if (this.isRoot) { warn; return; }  window.parent.postMessage(message, ...)
sendToParent(k, v) ==
  /\ copy # "svelte"
  /\ used.ops < MaxOps
  /\ used' = [used EXCEPT !.ops = @ + 1]
  /\ result' = Returned("sendToParent", Null)
  /\ toTop' = IF isRoot THEN toTop ELSE Append(toTop, SyncMsg(k, v, "report"))
  /\ UNCHANGED <<copy, atoms, order, subs, seen, iframes, listeners, loads, up,
                 childAtoms, childSubs, childSeen, toRoot, toChild, lastWrite,
                 since, destroyed>>
  /\ UNCHANGED <<nestedUp, nestedAtoms, toMid, toNested>>
  /\ UNCHANGED <<hierVars, discVars, demoVars, cellVars>>

\* requestStateFromParent() called on the root's coordinator (js/ts):
\* if (this.isRoot) { warn; return; }  window.parent.postMessage(request, ...)
requestStateFromParent ==
  /\ copy # "svelte"
  /\ used.ops < MaxOps
  /\ used' = [used EXCEPT !.ops = @ + 1]
  /\ result' = Returned("requestStateFromParent", Null)
  /\ toTop' = IF isRoot THEN toTop ELSE Append(toTop, ReqMsg)
  /\ UNCHANGED <<copy, atoms, order, subs, seen, iframes, listeners, loads, up,
                 childAtoms, childSubs, childSeen, toRoot, toChild, lastWrite,
                 since, destroyed>>
  /\ UNCHANGED <<nestedUp, nestedAtoms, toMid, toNested>>
  /\ UNCHANGED <<hierVars, discVars, demoVars, cellVars>>

\* a script of another protocol posts its message into the root's window from
\* frame c, or into frame c's window
postOther(c, toTheRoot) ==
  /\ used.ops < MaxOps
  /\ used' = [used EXCEPT !.ops = @ + 1, !.others = @ + 1]
  /\ IF toTheRoot
       THEN /\ toRoot' = [toRoot EXCEPT ![c] = Append(@, OtherMsg)]
            /\ toChild' = toChild
       ELSE /\ toChild' = [toChild EXCEPT ![c] = Append(@, OtherMsg)]
            /\ toRoot' = toRoot
  /\ UNCHANGED <<copy, atoms, order, subs, seen, iframes, listeners, loads, up,
                 childAtoms, childSubs, childSeen, lastWrite, since, result,
                 destroyed>>
  /\ UNCHANGED <<nestVars, hierVars, discVars, demoVars, cellVars>>

\* createChildClient in the nested frame N: its window.parent is frame A's window
createNestedClient ==
  /\ ~nestedUp
  /\ used.ops < MaxOps
  /\ used' = [used EXCEPT !.ops = @ + 1]
  /\ nestedUp' = TRUE
  /\ nestedAtoms' = [k \in Keys |->
                       IF copy # "svelte" /\ k \in NestedTracked
                         THEN NestedFallback(k) ELSE NoAtom]
  /\ toMid' = Append(toMid, ReqMsg)
  /\ UNCHANGED <<toTop, toNested>>
  /\ UNCHANGED <<copy, atoms, order, subs, seen, iframes, listeners, loads, up,
                 childAtoms, childSubs, childSeen, toRoot, toChild, lastWrite,
                 since, result, destroyed>>
  /\ UNCHANGED <<hierVars, discVars, demoVars, cellVars>>


\* updateAtom(key, value) / setValue(key, value) in N: the local value, and the
\* report to window.parent, which is frame A's window
nestedUpdateAtom(k, v) ==
  /\ nestedUp
  /\ copy # "svelte" => nestedAtoms[k] # NoAtom
  /\ used.ops < MaxOps
  /\ used' = [used EXCEPT !.ops = @ + 1]
  /\ nestedAtoms' = [nestedAtoms EXCEPT ![k] = v]
  /\ toMid' = Append(toMid, SyncMsg(k, v, "report"))
  /\ UNCHANGED <<nestedUp, toTop, toNested>>
  /\ UNCHANGED <<copy, atoms, order, subs, seen, iframes, listeners, loads, up,
                 childAtoms, childSubs, childSeen, toRoot, toChild, lastWrite,
                 since, result, destroyed>>
  /\ UNCHANGED <<hierVars, discVars, demoVars, cellVars>>

\* N's page posts a value message to window.top itself (architecture.md, Nested
\* Iframes, option 2)
postToTop(k, v) ==
  /\ used.ops < MaxOps
  /\ used' = [used EXCEPT !.ops = @ + 1]
  /\ toTop' = Append(toTop, SyncMsg(k, v, "report"))
  /\ UNCHANGED <<nestedUp, nestedAtoms, toMid, toNested>>
  /\ UNCHANGED <<copy, atoms, order, subs, seen, iframes, listeners, loads, up,
                 childAtoms, childSubs, childSeen, toRoot, toChild, lastWrite,
                 since, result, destroyed>>
  /\ UNCHANGED <<hierVars, discVars, demoVars, cellVars>>

\* a coordinator in a frame that passes on what its embedded frame sends
midHandleMessageRelaying ==
  /\ toMid # <<>>
  /\ toMid' = Tail(toMid)
  /\ LET m == Head(toMid) IN
       IF m.type = "atom-sync"
         THEN /\ toRoot' = [toRoot EXCEPT ![ "A" ] = Append(@, m)]
              /\ toNested' = toNested
         ELSE /\ toNested' = toNested \o
                   [i \in 1..Len(order) |->
                      SyncMsg(order[i], childAtoms["A"][order[i]], "reply")]
              /\ toRoot' = toRoot
  /\ UNCHANGED <<copy, atoms, order, subs, seen, iframes, listeners, loads, up,
                 childAtoms, childSubs, childSeen, toChild, lastWrite, since,
                 used, result, destroyed>>
  /\ UNCHANGED <<nestedUp, nestedAtoms, toTop>>
  /\ UNCHANGED <<hierVars, discVars, demoVars, cellVars>>

\* frame A's message listener on one message from N's window.  js/ts: the
\* coordinator of A's client, whose isRoot is false: a value goes into the local
\* atom if there is one, and the request branch (... && this.isRoot) is skipped.
\* svelte: handleMessage, which knows atom-sync only.  Without client in A the
\* window has no listener.
midHandleMessage ==
  /\ toMid # <<>>
  /\ toMid' = Tail(toMid)
  /\ LET m == Head(toMid) IN
       IF /\ up["A"]
          /\ m.type = "atom-sync"
          /\ copy # "svelte" => childAtoms["A"][m.key] # NoAtom
         THEN /\ childAtoms' = [childAtoms EXCEPT !["A"][m.key] = m.value]
              /\ childSeen' = [childSeen EXCEPT
                                 !["A"][m.key] = Notify(@, childSubs["A"][m.key], m.value)]
         ELSE UNCHANGED <<childAtoms, childSeen>>
  /\ UNCHANGED <<copy, atoms, order, subs, seen, iframes, listeners, loads, up,
                 childSubs, toRoot, toChild, lastWrite, since, used, result,
                 destroyed>>
  /\ UNCHANGED <<nestedUp, nestedAtoms, toTop, toNested>>
  /\ UNCHANGED <<hierVars, discVars, demoVars, cellVars>>

\* the root's message listener on one message that N's window, or the top
\* window itself, posted to the top window: no registered element has that
\* contentWindow
topHandleMessage ==
  /\ toTop # <<>>
  /\ toTop' = Tail(toTop)
  /\ LET m == Head(toTop) IN
       IF m.type = "atom-sync"
         THEN /\ IF atoms[m.key] = NoAtom
                   THEN UNCHANGED <<atoms, seen, toChild>>
                   ELSE RootAtomSet(m.key, m.value)
              /\ toNested' = toNested
         ELSE /\ toNested' = IF m.type = "atom-sync-request" /\ copy # "svelte" /\ isRoot
                               THEN toNested \o AllAtomMsgs(atoms, order, "reply")
                               ELSE toNested
              /\ UNCHANGED <<atoms, seen, toChild>>
  /\ UNCHANGED <<copy, order, subs, iframes, listeners, loads, up, childAtoms,
                 childSubs, childSeen, toRoot, lastWrite, since, used, result,
                 destroyed>>
  /\ UNCHANGED <<nestedUp, nestedAtoms, toMid>>
  /\ UNCHANGED <<hierVars, discVars, demoVars, cellVars>>

\* the library with a nested frame, the root-role calls of the child-only
\* operations and messages of other protocols
\* {type: 'atom-sync', ...} envelopes that lack the key field or the value field
MalformedMsgs ==
  {[type |-> "atom-sync", key |-> Missing, value |-> "dark", why |-> "foreign"],
   [type |-> "atom-sync", key |-> "theme", value |-> Missing, why |-> "foreign"]}

\* some script posts such an envelope to the root's window from frame c's
\* window, or into frame c's window
postMalformed(c, toTheRoot, m) ==
  /\ used.ops < MaxOps
  /\ used' = [used EXCEPT !.ops = @ + 1, !.others = @ + 1]
  /\ IF toTheRoot
       THEN /\ toRoot' = [toRoot EXCEPT ![c] = Append(@, m)]
            /\ toChild' = toChild
       ELSE /\ toChild' = [toChild EXCEPT ![c] = Append(@, m)]
            /\ toRoot' = toRoot
  /\ UNCHANGED <<copy, atoms, order, subs, seen, iframes, listeners, loads, up,
                 childAtoms, childSubs, childSeen, lastWrite, since, result,
                 destroyed>>
  /\ UNCHANGED <<nestVars, hierVars, discVars, demoVars, cellVars>>

\* the library among scripts that post malformed envelopes
NextMalformed ==
  \/ \E k \in Watched : \E v \in ValuesOf(k) : rootSet(k, v)
  \/ \E k \in Watched : \E v \in ValuesOf(k) : updateAtom("A", k, v)
  \/ \E c \in Children : createChildClient(c)
  \/ \E c \in Children : handleMessage(c)
  \/ \E c \in Children : setupMessageListener(c)
  \/ \E c \in Children, toTheRoot \in BOOLEAN, m \in MalformedMsgs :
       postMalformed(c, toTheRoot, m)

NextNest ==
  \/ \E k \in Watched : \E v \in ValuesOf(k) : rootSet(k, v)
  \/ \E k \in Watched : \E v \in ValuesOf(k) : updateAtom("A", k, v)
  \/ \E c \in Children : handleMessage(c)
  \/ \E c \in Children : setupMessageListener(c)
  \/ \E k \in Watched : \E v \in ValuesOf(k) : sendToParent(k, v)
  \/ requestStateFromParent
  \/ \E toTheRoot \in BOOLEAN : postOther("A", toTheRoot)
  \/ createNestedClient
  \/ \E k \in Watched : \E v \in ValuesOf(k) : nestedUpdateAtom(k, v)
  \/ \E k \in Watched : \E v \in ValuesOf(k) : postToTop(k, v)
  \/ midHandleMessage
  \/ topHandleMessage

(***************************************************************************)
(* Part V - the four-frame legacy demo                                     *)
(***************************************************************************)
DemoFrames == {"iframe1", "iframe2", "iframe3", "iframe4", "nested"}

\* Part V when another part runs: the demo page is not open
IdleDemo ==
  /\ countAtom = 0
  /\ loaded = {}
  /\ toPage = <<>>
  /\ toFrame = [f \in DemoFrames |-> <<>>]
  /\ display = [f \in DemoFrames |-> 0]
  /\ clicked = [increment |-> 0, decrement |-> 0, reset |-> 0]
  /\ sentTo = DemoFrames

\* the four frames of the page; the nested frame is an element of iframe2's
\* document and gets its document 100 ms after iframe2's load event
PageFrames == {"iframe1", "iframe2", "iframe3", "iframe4"}
Requests == {"increment", "decrement", "reset"}
\* the frames whose buttons are used: one that posts to window.parent and the
\* nested one, which posts to window.top
Senders == {"iframe1", "nested"}

Clicks == clicked.increment + clicked.decrement + clicked.reset

\* the demo page when its four frames have loaded: the counter is createAtom(0),
\* every display shows 0, and the nested frame's element is still empty
InitDemo ==
  /\ countAtom = 0
  /\ loaded = PageFrames
  /\ toPage = <<>>
  /\ toFrame = [f \in DemoFrames |-> <<>>]
  /\ display = [f \in DemoFrames |-> 0]
  /\ clicked = [increment |-> 0, decrement |-> 0, reset |-> 0]
  /\ sentTo = DemoFrames

\* the setTimeout callback of iframe2's load listener: nestedFrame.srcdoc =
\* nestedTemplate.innerHTML, and the nested document's script attaches its
\* listener
loadNested ==
  /\ "nested" \notin loaded
  /\ loaded' = loaded \cup {"nested"}
  /\ UNCHANGED <<countAtom, toPage, toFrame, display, clicked, sentTo>>
  /\ UNCHANGED <<refVars, hierVars, discVars, nestVars, cellVars>>

\* a button in frame f: window.parent.postMessage({type, from}, '*'), and
\* window.top.postMessage in the nested frame; both are the top window
click(f, t) ==
  /\ f \in loaded
  /\ Clicks < MaxClicks
  /\ clicked' = [clicked EXCEPT ![t] = @ + 1]
  /\ toPage' = Append(toPage, [type |-> t, from |-> f])
  /\ UNCHANGED <<countAtom, loaded, toFrame, display, sentTo>>
  /\ UNCHANGED <<refVars, hierVars, discVars, nestVars, cellVars>>

\* what a request makes of the count
Applied(t, n) ==
  IF t = "increment" THEN n + 1 ELSE IF t = "decrement" THEN n - 1 ELSE 0

\* the countAtom.subscribe callback: one count-update into the window of each of
\* the four frames and of the nested frame; a window without document has no
\* listener and the message is lost
CountUpdate(n) == [type |-> "count-update", count |-> n]

Broadcast(n) ==
  [f \in DemoFrames |-> IF f \in loaded THEN Append(toFrame[f], CountUpdate(n))
                                        ELSE toFrame[f]]

\* a subscriber that posts into the four frames of the page only
CountAtomSetPageOnly(n, notify) ==
  /\ countAtom' = n
  /\ IF n # countAtom \/ notify
       THEN /\ toFrame' = [f \in DemoFrames |->
                             IF f \in loaded \cap PageFrames
                               THEN Append(toFrame[f], CountUpdate(n)) ELSE toFrame[f]]
            /\ sentTo' = loaded
       ELSE UNCHANGED <<toFrame, sentTo>>

\* countAtom.set(n): the subscriber runs when the value changes; whether a set to
\* the value the atom holds notifies is the store library's business (notify)
CountAtomSet(n, notify) ==
  /\ countAtom' = n
  /\ IF n # countAtom \/ notify
       THEN /\ toFrame' = Broadcast(n)
            /\ sentTo' = loaded
       ELSE UNCHANGED <<toFrame, sentTo>>

\* the page's message listener on the message that arrived first
pageListener ==
  /\ toPage # <<>>
  /\ toPage' = Tail(toPage)
  /\ \E notify \in BOOLEAN :
       CountAtomSet(Applied(Head(toPage).type, countAtom), notify)
  /\ UNCHANGED <<loaded, display, clicked>>
  /\ UNCHANGED <<refVars, hierVars, discVars, nestVars, cellVars>>

\* a frame's message listener: count-update goes into countDisplay.textContent
frameListener(f) ==
  /\ toFrame[f] # <<>>
  /\ toFrame' = [toFrame EXCEPT ![f] = Tail(@)]
  /\ display' = IF Head(toFrame[f]).type = "count-update"
                  THEN [display EXCEPT ![f] = Head(toFrame[f]).count]
                  ELSE display
  /\ UNCHANGED <<countAtom, loaded, toPage, clicked, sentTo>>
  /\ UNCHANGED <<refVars, hierVars, discVars, nestVars, cellVars>>

NextDemo ==
  \/ loadNested
  \/ \E f \in Senders, t \in Requests : click(f, t)
  \/ pageListener
  \/ \E f \in DemoFrames : frameListener(f)

(***************************************************************************)
(* Part VI - one cell and its subscribers                                  *)
(***************************************************************************)
\* operations on the cell in one behaviour
MaxCellOps == 4

\* the callbacks of the application, and the broadcast function that registerAtom
\* subscribes first in the root
Fns == {"cb1", "cb2", "cb3"}
Broadcaster == "broadcast"
CellValues == {"light", "dark"}

\* one invocation fn(arg)
Call(fn, arg) == [fn |-> fn, arg |-> arg]

\* Part VI when another part runs
IdleCell ==
  /\ cellKind = "atom"
  /\ cellValue = "light"
  /\ cellSubscribers = <<>>
  /\ calls = <<>>
  /\ registeredAt = [fn \in Fns \cup {Broadcaster} |-> 0]
  /\ cellOps = 0

\* The behaviours start with a cell just made: an atom of the JavaScript copy
\* after registerAtom, in the root (the broadcast function is subscribed) or in
\* a frame (nothing is), or a key of the Svelte client, which holds no value yet.
InitCell ==
  /\ cellKind \in {"atom", "client"}
  /\ cellValue \in (IF cellKind = "atom" THEN CellValues ELSE {NoAtom})
  /\ cellSubscribers \in (IF cellKind = "atom" THEN {<<>>, <<Broadcaster>>} ELSE {<<>>})
  /\ calls = <<>>
  /\ registeredAt = [fn \in Fns \cup {Broadcaster} |->
                       IF fn \in Range(cellSubscribers) THEN 1 ELSE 0]
  /\ cellOps = 0

\* Set.prototype.add: a member keeps its place, a new one goes last
SetAdd(s, fn) == IF fn \in Range(s) THEN s ELSE Append(s, fn)

\* Set.prototype.delete
SetDelete(s, fn) == SelectSeq(s, LAMBDA g : g # fn)

\* atom: subscribe(fn) { this.subscribers.add(fn); fn(this.value); ... }
\* client: subscribers.get(key).add(callback); callback(currentValue) if the
\*         state Map holds a value for the key
atomSubscribe(fn) ==
  /\ cellOps < MaxCellOps
  /\ cellOps' = cellOps + 1
  /\ cellSubscribers' = SetAdd(cellSubscribers, fn)
  /\ calls' = IF cellKind = "client" /\ cellValue = NoAtom
                THEN <<>> ELSE <<Call(fn, cellValue)>>
  /\ registeredAt' = IF fn \in Range(cellSubscribers) THEN registeredAt
                     ELSE [registeredAt EXCEPT ![fn] = cellOps + 2]
  /\ UNCHANGED <<cellKind, cellValue>>
  /\ UNCHANGED <<refVars, hierVars, discVars, nestVars, demoVars>>

\* the function subscribe returned: () => this.subscribers.delete(fn)
atomUnsubscribe(fn) ==
  /\ cellOps < MaxCellOps
  /\ fn \in Range(cellSubscribers)
  /\ cellOps' = cellOps + 1
  /\ cellSubscribers' = SetDelete(cellSubscribers, fn)
  /\ calls' = <<>>
  /\ registeredAt' = [registeredAt EXCEPT ![fn] = 0]
  /\ UNCHANGED <<cellKind, cellValue>>
  /\ UNCHANGED <<refVars, hierVars, discVars, nestVars, demoVars>>

\* a set that calls the newest subscriber first
atomSetNewestFirst(v) ==
  /\ cellOps < MaxCellOps
  /\ cellOps' = cellOps + 1
  /\ cellValue' = v
  /\ calls' = [i \in 1..Len(cellSubscribers) |->
                 Call(cellSubscribers[Len(cellSubscribers) + 1 - i], v)]
  /\ UNCHANGED <<cellKind, cellSubscribers, registeredAt>>
  /\ UNCHANGED <<refVars, hierVars, discVars, nestVars, demoVars>>

\* atom: set(newValue) { this.value = newValue;
\*                       this.subscribers.forEach(fn => fn(newValue)) }
\* client: handleMessage on an atom-sync message for the key: state.set(key,
\*         value); subs.forEach(callback => callback(value))
\* Set.prototype.forEach visits the members in insertion order, and the calls are
\* made before the operation returns.
atomSet(v) ==
  /\ cellOps < MaxCellOps
  /\ cellOps' = cellOps + 1
  /\ cellValue' = v
  /\ calls' = [i \in 1..Len(cellSubscribers) |-> Call(cellSubscribers[i], v)]
  /\ UNCHANGED <<cellKind, cellSubscribers, registeredAt>>
  /\ UNCHANGED <<refVars, hierVars, discVars, nestVars, demoVars>>

NextCell ==
  \/ \E fn \in Fns : atomSubscribe(fn)
  \/ \E fn \in Fns : atomUnsubscribe(fn)
  \/ \E v \in CellValues : atomSet(v)

(***************************************************************************)
(* The specifications                                                      *)
(***************************************************************************)
\* the reference library
Init == InitRef /\ IdleHier /\ IdleDisc /\ IdleNest /\ IdleDemo /\ IdleCell

Spec == Init /\ [][NextRef]_vars

\* the reference library when the browsers' event loops deliver every message
\* that was posted
SpecDeliver ==
  /\ Init
  /\ [][NextRef]_vars
  /\ WF_vars(\E c \in Children : handleMessage(c))
  /\ WF_vars(\E c \in Children : setupMessageListener(c))

\* the reference library while the page sets itself up
SpecSetup == Init /\ [][NextSetup]_vars

\* the reference library seen from the frames
SpecChild == Init /\ [][NextChild]_vars

InitLibrary == InitApi /\ IdleHier /\ IdleDisc /\ IdleNest /\ IdleDemo /\ IdleCell

SpecApi == InitLibrary /\ [][NextApi]_vars

\* a tree of StateManagers after discovery
InitTree == IdleRef /\ InitHier /\ IdleDisc /\ IdleNest /\ IdleDemo /\ IdleCell

SpecHier == InitTree /\ [][NextHier]_vars

\* the tree of StateManagers with the time-to-live of the processed ids
InitExpiring == IdleRef /\ InitExpiry /\ IdleDisc /\ IdleNest /\ IdleDemo /\ IdleCell

SpecExpiry == InitExpiring /\ [][NextExpiry]_vars

InitReconfigurable == IdleRef /\ InitConfig /\ IdleDisc /\ IdleNest /\ IdleDemo /\ IdleCell

SpecConfig == InitReconfigurable /\ [][NextConfig]_vars

\* the reference library with a frame nested two levels deep
InitNested == InitNest /\ IdleHier /\ IdleDisc /\ IdleDemo /\ IdleCell

SpecNest == InitNested /\ [][NextNest]_vars

\* the reference library receiving malformed envelopes
SpecMalformed == InitNested /\ [][NextMalformed]_vars

\* the legacy demo; the event loops deliver what was posted and the timer that
\* loads the nested frame fires
InitLegacy == IdleRef /\ IdleHier /\ IdleDisc /\ IdleNest /\ InitDemo /\ IdleCell

SpecDemo ==
  /\ InitLegacy
  /\ [][NextDemo]_vars
  /\ WF_vars(loadNested)
  /\ WF_vars(pageListener)
  /\ \A f \in DemoFrames : WF_vars(frameListener(f))

\* two concurrent updates on their way through the tree
InitRacing == IdleRef /\ InitMerge /\ IdleDisc /\ IdleNest /\ IdleDemo /\ IdleCell

SpecMerge == InitRacing /\ [][NextMerge]_vars

\* one cell and the callbacks subscribed to it
InitOneCell == IdleRef /\ IdleHier /\ IdleDisc /\ IdleNest /\ IdleDemo /\ InitCell

SpecCell == InitOneCell /\ [][NextCell]_vars

InitDiscovery == IdleRef /\ IdleHier /\ InitDisc /\ IdleNest /\ IdleDemo /\ IdleCell

\* one StateManager's discovery.  The coordinator's own steps are tasks of its
\* event loop and its timers fire; nothing obliges the other frames to answer.
SpecDisc ==
  /\ InitDiscovery
  /\ [][NextDisc]_vars
  /\ WF_vars(initialize)
  /\ WF_vars(onParentAck)
  /\ WF_vars(parentTimeout)
  /\ WF_vars(\E e \in Elems : onChildAck(e))
  /\ WF_vars(childTimeout)
  /\ WF_vars(becomeReady)

(***************************************************************************)
(* Part I - properties                                                     *)
(***************************************************************************)
\* no message is in flight
Quiet == \A c \in Children : toRoot[c] = <<>> /\ toChild[c] = <<>>

\* child c runs a client that keeps key k
Tracks(c, k) == up[c] /\ (copy = "svelte" \/ k \in Tracked(c))

\* C1: sibling propagation.  When the latest write of a registered cell k was
\* child a's updateAtom(k, v), no other frame's update of k was under way, frame
\* a has been registered ever since, and every message has been delivered, then
\* the root's cell holds v and every subscriber of the root's cell was last called
\* with v; and for every other frame b registered ever since whose client tracks
\* k, b's copy holds v and every subscriber of b's copy was last called with v.
C1_SiblingPropagation ==
  Quiet =>
    \A k \in Keys : \A a \in Children :
      ( /\ atoms[k] # NoAtom
        /\ lastWrite[k].by = a
        /\ ~lastWrite[k].racing
        /\ a \in since[k] )
      => /\ atoms[k] = lastWrite[k].val
         /\ \A cb \in subs[k] : seen[k][cb] = lastWrite[k].val
         /\ \A b \in since[k] \ {a} :
              Tracks(b, k) =>
                /\ childAtoms[b][k] = lastWrite[k].val
                /\ \A cb \in childSubs[b][k] :
                     childSeen[b][k][cb] = lastWrite[k].val

\* child A moved the theme away from its initial value and the root's subscriber
\* and child B's subscriber both heard of it
C1_Witness ==
  /\ Quiet
  /\ lastWrite["theme"].by = "A"
  /\ ~lastWrite["theme"].racing
  /\ lastWrite["theme"].val = "dark"
  /\ {"A", "B"} \subseteq since["theme"]
  /\ Tracks("B", "theme")
  /\ subs["theme"] = Callbacks
  /\ \A cb \in Callbacks : seen["theme"][cb] = "dark"
  /\ childAtoms["B"]["theme"] = "dark"

\* C2: root set round trip.  set(v) on a registered cell of the root leaves v in
\* the cell when it returns; and when the latest write of k was the root's
\* set(v), with no child's update of k under way, then once every message is
\* delivered each child registered ever since and tracking k holds v.
C2_RootSetRoundTrip ==
  /\ [][\A k \in Keys : \A v \in ValuesOf(k) : rootSet(k, v) => atoms'[k] = v]_vars
  /\ [](Quiet =>
         \A k \in Keys :
           (lastWrite[k].by = "root" /\ ~lastWrite[k].racing)
           => /\ atoms[k] = lastWrite[k].val
              /\ \A c \in since[k] :
                   Tracks(c, k) => childAtoms[c][k] = lastWrite[k].val)

\* the root set the theme to dark and both registered children reflect it
C2_Witness ==
  /\ Quiet
  /\ lastWrite["theme"].by = "root"
  /\ lastWrite["theme"].val = "dark"
  /\ since["theme"] = {"A", "B"}
  /\ Tracks("A", "theme") /\ Tracks("B", "theme")
  /\ childAtoms["A"]["theme"] = "dark"
  /\ childAtoms["B"]["theme"] = "dark"

\* C3: per-key last write wins.  Whatever the root and the children wrote to k
\* and in whatever order the writes raced, in every state with no message in
\* flight each child registered since the latest write and tracking k holds the
\* value of the root's cell, which is the value the cell was last set to.
C3_LastWriteWins ==
  Quiet =>
    \A k \in Keys : \A c \in since[k] :
      (atoms[k] # NoAtom /\ Tracks(c, k)) => childAtoms[c][k] = atoms[k]

\* the root set the theme while a child's update of it was on its way; the
\* child's value reached the root's cell last, and everybody holds it
C3_Witness ==
  /\ Quiet
  /\ lastWrite["theme"].by = "root"
  /\ lastWrite["theme"].racing
  /\ atoms["theme"] # lastWrite["theme"].val
  /\ \E c \in since["theme"] : Tracks(c, "theme") /\ childAtoms[c]["theme"] = atoms["theme"]

\* the messages a step appended to the channel into frame f
Pushed(f) == SubSeq(toChild'[f], Len(toChild[f]) + 1, Len(toChild'[f]))

\* C4 (as amended): load-triggered initial sync.  When a frame element loads, the
\* root pushes into it, for each load listener attached to the element (one per
\* registerIframe call), one value message per registered cell carrying the
\* cell's value at that moment, and nothing into any other frame; and a client
\* that tracks the key takes the value of each such message it receives.
C4_LoadSync ==
  [][ /\ \A f \in Children :
           frameLoad(f) =>
             /\ Len(Pushed(f)) = listeners[f] * Len(order)
             /\ \A i \in DOMAIN Pushed(f) :
                  /\ Pushed(f)[i].type = "atom-sync"
                  /\ Pushed(f)[i].why = "load"
                  /\ atoms[Pushed(f)[i].key] # NoAtom
                  /\ Pushed(f)[i].value = atoms[Pushed(f)[i].key]
             /\ \A k \in Keys :
                  atoms[k] # NoAtom =>
                    Cardinality({i \in DOMAIN Pushed(f) : Pushed(f)[i].key = k})
                      = listeners[f]
             /\ \A g \in Children \ {f} : toChild'[g] = toChild[g]
      /\ \A c \in Children :
           ( /\ handleMessage(c)
             /\ Head(toChild[c]).why = "load"
             /\ Tracks(c, Head(toChild[c]).key) )
           => childAtoms'[c][Head(toChild[c]).key] = Head(toChild[c]).value
    ]_vars

\* a frame registered twice has loaded: the root pushed the theme into it twice,
\* its client has taken the first of the two messages and the second is on its way
C4_Witness ==
  \E f \in Children :
    /\ f \in iframes
    /\ listeners[f] = 2
    /\ loads[f] = 1
    /\ order = <<"theme">>
    /\ Tracks(f, "theme")
    /\ toChild[f] = <<SyncMsg("theme", atoms["theme"], "load")>>
    /\ childAtoms[f]["theme"] = atoms["theme"]

\* C4 (as stated): when a registered frame loads, the root pushes exactly one
\* value message per registered cell, carrying the value the cell was registered
\* with.
C4_AsStated ==
  [][\A f \in Children :
       (frameLoad(f) /\ f \in iframes) =>
         Pushed(f) = AllAtomMsgs([k \in Keys |-> InitialValue(k)], order, "load")]_vars

\* C5 (as stated): on an initial-sync request from window c the root posts one
\* value message per registered cell, with the cell's current value, to c,
\* whether or not c is in the Set of registered frames, and nothing to others.
C5_ReplyToSource ==
  [][\A c \in Children :
       ( /\ setupMessageListener(c)
         /\ Head(toRoot[c]).type = "atom-sync-request" )
       => /\ Pushed(c) = AllAtomMsgs(atoms, order, "reply")
          /\ \A g \in Children \ {c} : toChild'[g] = toChild[g]]_vars

\* C5 for the JavaScript and TypeScript copies, where it holds
C5_ReplyToSourceJsTs ==
  [][copy # "svelte" =>
       \A c \in Children :
         ( /\ setupMessageListener(c)
           /\ Head(toRoot[c]).type = "atom-sync-request" )
         => /\ Pushed(c) = AllAtomMsgs(atoms, order, "reply")
            /\ \A g \in Children \ {c} : toChild'[g] = toChild[g]]_vars

\* C12: duplicate registration.  A registerAtom call for a key that is taken
\* throws and leaves the cell of the first call, its value and its subscribers,
\* as they were.
C12_DuplicateRegistration ==
  [][\A k \in Keys :
       (atoms[k] # NoAtom /\ registerAtom(k, InitialValue(k))) =>
          /\ result' = Threw("registerAtom")
          /\ atoms'[k] = atoms[k]
          /\ subs'[k] = subs[k]]_vars

\* the TypeScript copy does so
C12_DuplicateRegistrationTs ==
  [][\A k \in Keys :
       (copy = "ts" /\ atoms[k] # NoAtom /\ registerAtom(k, InitialValue(k))) =>
          /\ result' = Threw("registerAtom")
          /\ atoms'[k] = atoms[k]
          /\ subs'[k] = subs[k]]_vars

\* the Svelte copy keeps the first cell and throws nothing
C12_DuplicateRegistrationKept ==
  [][\A k \in Keys :
       (copy # "js" /\ atoms[k] # NoAtom /\ registerAtom(k, InitialValue(k))) =>
          /\ atoms'[k] = atoms[k]
          /\ subs'[k] = subs[k]]_vars

\* C13: missing-key lookup at the root.  Looking up a key that is not registered
\* throws, and the registered cells are the same before and after.
C13_MissingKeyLookup ==
  [][\A k \in Keys :
       (atoms[k] = NoAtom /\ getAtom(k)) =>
          /\ result' = Threw("getAtom")
          /\ atoms' = atoms
          /\ order' = order]_vars

\* the JavaScript and TypeScript copies do so
C13_MissingKeyLookupJsTs ==
  [][\A k \in Keys :
       (copy # "svelte" /\ atoms[k] = NoAtom /\ getAtom(k)) =>
          /\ result' = Threw("getAtom")
          /\ atoms' = atoms
          /\ order' = order]_vars

\* no copy creates a cell
C13_NoCellCreated ==
  [][\A k \in Keys : getAtom(k) => atoms' = atoms /\ order' = order]_vars

\* C14: the child's getAtomValue(key) returns the cached value of a key that was
\* configured at construction and throws for a key that was not, whatever value
\* messages have arrived for that key.
C14_ChildLookup ==
  [][\A c \in Children, k \in Keys :
       getAtomValue(c, k) =>
          IF k \in Configured(c)
            THEN result' = Returned("getAtomValue", childAtoms[c][k])
            ELSE result' = Threw("getAtomValue")]_vars

\* the JavaScript and TypeScript copies do so
C14_ChildLookupJsTs ==
  [][\A c \in Children, k \in Keys :
       (copy # "svelte" /\ getAtomValue(c, k)) =>
          IF k \in Configured(c)
            THEN result' = Returned("getAtomValue", childAtoms[c][k])
            ELSE result' = Threw("getAtomValue")]_vars

\* C15: the parent's value wins over a child's fallback.  Constructing a child
\* client posts one initial-sync request and nothing else, and changes no cell of
\* the root; the root answers the request with the values its cells hold; and
\* the delivery of an answer for a configured key sets the child's value to the
\* value the answer carries, whatever the fallback was.
C15_ParentWins ==
  /\ [][\A c \in Children :
          createChildClient(c) =>
             /\ toRoot'[c] = Append(toRoot[c], ReqMsg)
             /\ \A d \in Children \ {c} : toRoot'[d] = toRoot[d]
             /\ atoms' = atoms
             /\ toChild' = toChild]_vars
  /\ [][\A c \in Children :
          (/\ copy # "svelte"
           /\ toRoot[c] # <<>>
           /\ Head(toRoot[c]) = ReqMsg
           /\ setupMessageListener(c)) =>
             /\ Pushed(c) = AllAtomMsgs(atoms, order, "reply")
             /\ atoms' = atoms]_vars
  /\ [][\A c \in Children :
          (/\ up[c]
           /\ toChild[c] # <<>>
           /\ Head(toChild[c]).why = "reply"
           /\ Head(toChild[c]).key \in Configured(c)
           /\ handleMessage(c)) =>
             childAtoms'[c][Head(toChild[c]).key] = Head(toChild[c]).value]_vars

\* a client whose frame was never registered, constructed with the fallback
\* "dark", holds the root's "light" once the answer to its request is delivered
C15_Witness ==
  /\ copy # "svelte"
  /\ "A" \notin iframes
  /\ listeners["A"] = 0
  /\ up["A"]
  /\ Quiet
  /\ lastWrite["theme"].by = "register"
  /\ atoms["theme"] = "light"
  /\ Fallback("A", "theme") = "dark"
  /\ childAtoms["A"]["theme"] = "light"

\* C16: subscribe and set.  subscribe(callback) on a cell adds the callback and
\* calls it with the cell's current value, and every later set of the cell calls
\* each subscribed callback with the new value, in the root and in a child.
C16_SubscribeAndSet ==
  [][/\ \A k \in Keys, cb \in Callbacks :
          rootSubscribe(k, cb) =>
             cb \in subs'[k] /\ seen'[k][cb] = atoms[k]
     /\ \A c \in Children, k \in Keys, cb \in Callbacks :
          (childAtoms[c][k] # NoAtom /\ subscribeToAtom(c, k, cb)) =>
             cb \in childSubs'[c][k] /\ childSeen'[c][k][cb] = childAtoms[c][k]
     /\ \A k \in Keys, cb \in Callbacks : \A v \in ValuesOf(k) :
          (cb \in subs[k] /\ rootSet(k, v)) => seen'[k][cb] = v
     /\ \A c \in Children, k \in Keys, cb \in Callbacks : \A v \in ValuesOf(k) :
          (cb \in childSubs[c][k] /\ updateAtom(c, k, v)) =>
             childSeen'[c][k][cb] = v]_vars

\* the JavaScript and TypeScript copies do so
C16_SubscribeAndSetJsTs ==
  [][copy # "svelte" =>
     /\ \A k \in Keys, cb \in Callbacks :
          rootSubscribe(k, cb) =>
             cb \in subs'[k] /\ seen'[k][cb] = atoms[k]
     /\ \A c \in Children, k \in Keys, cb \in Callbacks :
          (childAtoms[c][k] # NoAtom /\ subscribeToAtom(c, k, cb)) =>
             cb \in childSubs'[c][k] /\ childSeen'[c][k][cb] = childAtoms[c][k]
     /\ \A k \in Keys, cb \in Callbacks : \A v \in ValuesOf(k) :
          (cb \in subs[k] /\ rootSet(k, v)) => seen'[k][cb] = v
     /\ \A c \in Children, k \in Keys, cb \in Callbacks : \A v \in ValuesOf(k) :
          (cb \in childSubs[c][k] /\ updateAtom(c, k, v)) =>
             childSeen'[c][k][cb] = v]_vars

C18_UnregisterStopsBroadcast ==
  /\ [][\A f \in Children : unregisterIframe(f) => iframes' = iframes \ {f}]_vars
  /\ [][\A k \in Keys : \A v \in ValuesOf(k) :
          rootSet(k, v) =>
             \A f \in Children :
                Pushed(f) = IF f \in iframes
                              THEN <<SyncMsg(k, v, "broadcast")>> ELSE <<>>]_vars
  /\ [][\A c \in Children :
          (/\ toRoot[c] # <<>>
           /\ Head(toRoot[c]).type = "atom-sync"
           /\ atoms[Head(toRoot[c]).key] # NoAtom
           /\ setupMessageListener(c)) =>
             \A f \in Children :
                Pushed(f) = IF f \in iframes
                              THEN <<SyncMsg(Head(toRoot[c]).key,
                                             Head(toRoot[c]).value, "broadcast")>>
                              ELSE <<>>]_vars

\* frame A got the first broadcast, was unregistered, and did not get the
\* second one, which B got
C18_Witness ==
  /\ "A" \notin iframes
  /\ "B" \in iframes
  /\ toChild["A"] = <<SyncMsg("theme", "dark", "broadcast")>>
  /\ toChild["B"] = <<SyncMsg("theme", "dark", "broadcast"),
                      SyncMsg("theme", "light", "broadcast")>>

\* C19: cleanup.  destroy() leaves no callback subscribed and invokes none, and
\* once an instance is destroyed a message that arrives for it changes no cell,
\* invokes no callback and makes it post nothing.
C19_Cleanup ==
  /\ [][destroy => (seen' = seen /\ \A k \in Keys : subs'[k] = {})]_vars
  /\ [][\A c \in Children :
          destroyClient(c) =>
             (childSeen' = childSeen /\ \A k \in Keys : childSubs'[c][k] = {})]_vars
  /\ [][\A c \in Children :
          (c \in destroyed /\ handleMessage(c)) =>
             /\ childAtoms' = childAtoms
             /\ childSeen' = childSeen
             /\ toRoot' = toRoot]_vars
  /\ [][\A c \in Children :
          ("root" \in destroyed /\ setupMessageListener(c)) =>
             /\ atoms' = atoms
             /\ seen' = seen
             /\ toChild' = toChild]_vars

\* the child's half holds: a destroyed client has no listener
C19_CleanupClient ==
  /\ [][\A c \in Children :
          destroyClient(c) =>
             (childSeen' = childSeen /\ \A k \in Keys : childSubs'[c][k] = {})]_vars
  /\ [][\A c \in Children :
          (c \in destroyed /\ handleMessage(c)) =>
             /\ childAtoms' = childAtoms
             /\ childSeen' = childSeen
             /\ toRoot' = toRoot]_vars

\* the coordinator's half holds until it is given something to keep again
C19_CleanupWhileEmpty ==
  [][\A c \in Children :
       (/\ "root" \in destroyed
        /\ order = <<>>
        /\ setupMessageListener(c)) =>
          /\ atoms' = atoms
          /\ seen' = seen
          /\ toChild' = toChild]_vars

\* a destroyed client with a message waiting in its window
C19_ClientWitness ==
  /\ "A" \in destroyed
  /\ ~up["A"]
  /\ toChild["A"] # <<>>

\* C23: a value message for a key the root has no cell for is dropped by the
\* root's listener: no cell is made, no cell changes, no subscriber runs and
\* nothing is posted to any frame.  So a child's updateAtom on such a key puts the
\* value in that child's cache and posts the report, and neither the root's
\* cells nor any other frame's cache or inbox change.
C23_UnknownKeyIgnored ==
  /\ [][\A c \in Children :
          (/\ toRoot[c] # <<>>
           /\ Head(toRoot[c]).type = "atom-sync"
           /\ atoms[Head(toRoot[c]).key] = NoAtom
           /\ setupMessageListener(c)) =>
             /\ atoms' = atoms
             /\ order' = order
             /\ seen' = seen
             /\ toChild' = toChild
             /\ childAtoms' = childAtoms]_vars
  /\ [][\A c \in Children, k \in Keys : \A v \in ValuesOf(k) :
          (atoms[k] = NoAtom /\ updateAtom(c, k, v)) =>
             /\ childAtoms'[c][k] = v
             /\ \A d \in Children, j \in Keys :
                  <<d, j>> # <<c, k>> => childAtoms'[d][j] = childAtoms[d][j]
             /\ atoms' = atoms
             /\ order' = order
             /\ toChild' = toChild]_vars

\* frame A set the theme, which the root never registered: A holds the value,
\* its report has been delivered, and the root has no cell and posted nothing
C23_Witness ==
  /\ copy = "ts"
  /\ atoms["theme"] = NoAtom
  /\ order = <<>>
  /\ lastWrite["theme"].by = "A"
  /\ childAtoms["A"]["theme"] = "light"
  /\ toRoot["A"] = <<>>
  /\ \A f \in Children : toChild[f] = <<>>

\* C26: when a child's updateAtom(key, value) returns, the child's cache holds
\* value for key and exactly one value message {atom-sync, key, value} has been
\* posted, to the parent window: the child's channel to the root is one message
\* longer, and no other window's inbox has changed.
C26_ChildUpdate ==
  [][\A c \in Children, k \in Keys : \A v \in ValuesOf(k) :
       updateAtom(c, k, v) =>
          /\ childAtoms'[c][k] = v
          /\ toRoot'[c] = Append(toRoot[c], SyncMsg(k, v, "report"))
          /\ \A d \in Children \ {c} : toRoot'[d] = toRoot[d]
          /\ toChild' = toChild]_vars

\* frame B, which had no value for the theme, set it to dark: the value is in its
\* cache and the report is behind its initial-sync request on the way to the root
C26_Witness ==
  /\ copy = "js"
  /\ childAtoms["B"]["theme"] = "dark"
  /\ toRoot["B"] = <<ReqMsg, SyncMsg("theme", "dark", "report")>>
  /\ toRoot["A"] = <<>>
  /\ \A f \in Children : toChild[f] = <<>>

C30_NothingAfterUnregister ==
  [][\A f \in Children :
       (listeners[f] > 0 /\ f \notin iframes /\ f \notin iframes') =>
          Len(toChild'[f]) <= Len(toChild[f])]_vars

\* the part of C30 that the code keeps: the broadcast of a set of a root cell
\* and, in the Svelte copy, the answer to a sync request post nothing into a
\* frame that was unregistered
C30_NoBroadcastAfterUnregister ==
  [][\A f \in Children :
       (/\ listeners[f] > 0 /\ f \notin iframes /\ f \notin iframes'
        /\ loads' = loads
        /\ copy = "svelte" \/ atoms' # atoms \/ toRoot' = toRoot) =>
          Len(toChild'[f]) <= Len(toChild[f])]_vars

\* the messages in flight, a message to the root counted with the messages its
\* delivery can put into the frames' inboxes (one per frame of a broadcast, one
\* per cell of an answer)
RECURSIVE SumLen(_, _)
SumLen(ch, cs) ==
  IF cs = {} THEN 0
  ELSE LET c == CHOOSE x \in cs : TRUE IN Len(ch[c]) + SumLen(ch, cs \ {c})

Fanout == IF Cardinality(Children) > Cardinality(Keys)
            THEN Cardinality(Children) ELSE Cardinality(Keys)

InFlight == (Fanout + 1) * SumLen(toRoot, Children) + SumLen(toChild, Children)

\* C28: no message loops.  A child that handles a message from the root posts
\* nothing; the root, handling a child's value message, posts at most one value
\* message into each registered frame and none elsewhere; every delivery brings
\* the count of messages in flight down, so deliveries alone end after finitely
\* many steps; and once the application makes no further call, the system
\* reaches a state with no message in flight and stays there.
C28_NoLoops ==
  /\ [][\A c \in Children :
          handleMessage(c) =>
             /\ toRoot' = toRoot
             /\ \A d \in Children : Len(toChild'[d]) <= Len(toChild[d])]_vars
  /\ [][\A c \in Children :
          (/\ toRoot[c] # <<>>
           /\ Head(toRoot[c]).type = "atom-sync"
           /\ setupMessageListener(c)) =>
             /\ \A f \in Children : Len(Pushed(f)) <= (IF f \in iframes THEN 1 ELSE 0)
             /\ \A d \in Children \ {c} : toRoot'[d] = toRoot[d]
             /\ toRoot'[c] = Tail(toRoot[c])]_vars
  /\ [][(\E c \in Children : handleMessage(c) \/ setupMessageListener(c)) =>
          InFlight' < InFlight]_vars
  /\ <>[]Quiet

\* frame A set the theme, its report was rebroadcast and every message was
\* delivered: the application has made its last call, nothing is in flight and
\* A holds the root's value
C28_Witness ==
  /\ Quiet
  /\ used.ops = MaxOps
  /\ iframes = Children
  /\ up["A"]
  /\ lastWrite["theme"].by = "A"
  /\ atoms["theme"] = "light"
  /\ childAtoms["A"]["theme"] = "light"

\* C31 (as stated): convergence does not depend on the set-up order.  While the
\* page only sets itself up (registerAtom and registerIframe calls, load events,
\* clients constructed with their initial-sync request, in any order), in every
\* state with no message in flight each registered frame that has loaded and
\* whose client tracks a registered cell holds the value of the root's cell.
C31_SetupOrder ==
  Quiet =>
    \A c \in iframes : \A k \in Keys :
      (atoms[k] # NoAtom /\ Tracks(c, k) /\ loads[c] > 0)
        => childAtoms[c][k] = atoms[k]

\* the same in the JavaScript and TypeScript copies, whose root answers a request
\* from any window
C31_SetupOrderJsTs == copy # "svelte" => C31_SetupOrder

\* C33 (as stated): a child's update reaches its own subscribers.  When a child
\* updates key k to v (updateAtom, setValue), every callback subscribed to k in
\* that child is called with v, in every copy of the client and whether or not
\* the child's frame is registered with the root.
C33_OwnSubscribers ==
  [][\A c \in Children, k \in Keys : \A v \in ValuesOf(k) :
       updateAtom(c, k, v) =>
         \A cb \in childSubs[c][k] : childSeen'[c][k][cb] = v]_vars

\* the same in the JavaScript and TypeScript copies, whose updateAtom is atom.set
C33_OwnSubscribersJsTs ==
  [][\A c \in Children, k \in Keys : \A v \in ValuesOf(k) :
       (copy # "svelte" /\ updateAtom(c, k, v)) =>
         \A cb \in childSubs[c][k] : childSeen'[c][k][cb] = v]_vars

\* C34: no sender check on value messages.  Whichever window a value message for
\* a registered key comes from, the window of a registered frame, of a frame
\* that was never registered or of one that has been unregistered, the root
\* sets its cell to the value, calls the cell's subscribers with it and posts
\* one broadcast of it into every registered frame and nothing anywhere else.
C34_NoSenderCheck ==
  [][\A c \in Children :
       ( /\ toRoot[c] # <<>>
         /\ Head(toRoot[c]).type = "atom-sync"
         /\ atoms[Head(toRoot[c]).key] # NoAtom
         /\ setupMessageListener(c) )
       => LET m == Head(toRoot[c]) IN
            /\ atoms'[m.key] = m.value
            /\ \A cb \in subs[m.key] : seen'[m.key][cb] = m.value
            /\ \A f \in Children :
                 Pushed(f) = IF f \in iframes
                               THEN <<SyncMsg(m.key, m.value, "broadcast")>>
                               ELSE <<>>]_vars

\* frame A, which the root never registered, reported dark: the root's cell
\* holds it and its rebroadcast is on its way into the registered frame B
C34_Witness ==
  /\ "A" \notin iframes
  /\ listeners["A"] = 0
  /\ "B" \in iframes
  /\ lastWrite["theme"] = [by |-> "A", val |-> "dark", racing |-> FALSE]
  /\ toRoot["A"] = <<>>
  /\ atoms["theme"] = "dark"
  /\ \A cb \in Callbacks : seen["theme"][cb] = "dark"
  /\ toChild["B"] # <<>>
  /\ toChild["B"][Len(toChild["B"])] = SyncMsg("theme", "dark", "broadcast")
  /\ toChild["A"] = <<>>

\* C36: broadcast is root-side only.  In a frame, a set of a cell the client
\* exposes leaves the value in the local cell, calls the local subscribers with
\* it and posts nothing, to the parent or to any frame; and the delivery of a
\* value message for a key the client tracks does the same with the message's
\* value, taking that one message out of the frame's inbox.
C36_RootSideOnly ==
  [][/\ \A c \in Children, k \in Keys : \A v \in ValuesOf(k) :
          childAtomSet(c, k, v) =>
            /\ childAtoms'[c][k] = v
            /\ \A cb \in childSubs[c][k] : childSeen'[c][k][cb] = v
            /\ toRoot' = toRoot
            /\ toChild' = toChild
            /\ atoms' = atoms
     /\ \A c \in Children :
          ( /\ toChild[c] # <<>>
            /\ Head(toChild[c]).type = "atom-sync"
            /\ Tracks(c, Head(toChild[c]).key)
            /\ handleMessage(c) )
          => LET m == Head(toChild[c]) IN
               /\ childAtoms'[c][m.key] = m.value
               /\ \A cb \in childSubs[c][m.key] : childSeen'[c][m.key][cb] = m.value
               /\ toRoot' = toRoot
               /\ toChild' = [toChild EXCEPT ![c] = Tail(@)]
               /\ atoms' = atoms
    ]_vars

\* frame A's client was built with the fallback dark for a theme the root does
\* not keep; the page set the exposed cell to light, the subscriber heard it, and
\* no report was ever made
C36_Witness ==
  /\ copy # "svelte"
  /\ up["A"]
  /\ atoms["theme"] = NoAtom
  /\ lastWrite["theme"].by = "nobody"
  /\ Fallback("A", "theme") = "dark"
  /\ childAtoms["A"]["theme"] = "light"
  /\ childSubs["A"]["theme"] = {"cb1"}
  /\ childSeen["A"]["theme"]["cb1"] = "light"
  /\ Quiet

\* C37 (as stated): destroy() is idempotent and leaves no dangling listener.
\* The coordinator's destroy() leaves no load listener on any frame element, and
\* from then on its message listener reacts to nothing; the client's destroy()
\* detaches the client's message listener; and a second destroy() of either,
\* called on the instance as the first one left it, changes nothing.
C37_DestroyIdempotent ==
  /\ [][destroy => \A f \in Children : listeners'[f] = 0]_vars
  /\ [][\A c \in Children :
          ("root" \in destroyed /\ setupMessageListener(c)) =>
             atoms' = atoms /\ seen' = seen /\ toChild' = toChild]_vars
  /\ [][\A c \in Children : destroyClient(c) => ~up'[c]]_vars
  /\ [][("root" \in destroyed /\ order = <<>> /\ iframes = {} /\ destroy) =>
          /\ UNCHANGED <<atoms, order, subs, seen, iframes, listeners, toChild,
                          toRoot>>
          /\ result' = Returned("destroy again", Null)]_vars
  /\ [][\A c \in Children :
          (c \in destroyed /\ destroyClient(c)) =>
             /\ UNCHANGED <<up, childAtoms, childSubs, childSeen, toRoot, toChild>>
             /\ result' = Returned("destroy again", Null)]_vars

\* what does hold: the client's destroy() detaches its listener, and a second
\* destroy() of the coordinator or of the client changes nothing
C37_SecondDestroy ==
  /\ [][\A c \in Children : destroyClient(c) => ~up'[c]]_vars
  /\ [][("root" \in destroyed /\ order = <<>> /\ iframes = {} /\ destroy) =>
          /\ UNCHANGED <<atoms, order, subs, seen, iframes, listeners, toChild,
                          toRoot>>
          /\ result' = Returned("destroy again", Null)]_vars
  /\ [][\A c \in Children :
          (c \in destroyed /\ destroyClient(c)) =>
             /\ UNCHANGED <<up, childAtoms, childSubs, childSeen, toRoot, toChild>>
             /\ result' = Returned("destroy again", Null)]_vars

\* frame A's client has been destroyed twice
C37_SecondDestroyWitness ==
  /\ copy = "svelte"
  /\ destroyed = {"A"}
  /\ ~up["A"]
  /\ result = Returned("destroy again", Null)
  /\ used.ops = 2

(***************************************************************************)
(* Part II - properties                                                    *)
(***************************************************************************)
\* C6: loop prevention.  No node merges the update of one message id more than
\* once, the node that issued it included; a node that receives an envelope
\* whose id is in its processed Set changes nothing and sends nothing; and no
\* more envelopes are ever sent for one id than there are directed links.
C6_LoopPrevention ==
  /\ [](\A n \in Nodes : \A i \in Ids : applied[n][i] <= 1)
  /\ [](\A i \in Ids : hops[i] <= Cardinality(Links))
  /\ [][\A m \in net :
          (onStateUpdate(m) /\ m.id \in processed[m.to])
          => /\ store' = store
             /\ applied' = applied
             /\ processed' = processed
             /\ net' = net \ {m}]_vars

\* without the path check every node sent update 1 back where it came from: six
\* envelopes were delivered, three of them to a node that had applied the update
C6_Witness ==
  /\ ~pathCheck
  /\ net = {}
  /\ hops[1] = Cardinality(Links)
  /\ \A n \in Nodes : applied[n][1] = 1

\* C7: sync-direction enforcement.  Every envelope a step sends carries toward
\* the sender's parent only keys the sender has configured up or bidirectional
\* or not at all, toward a child of the sender only keys configured down or
\* bidirectional or not at all, and never a key configured local; and a setState
\* of an unconfigured key sends the key toward the parent and toward every child.
C7_SyncDirection ==
  /\ [][\A m \in net' \ net : \A k \in m.keys :
          /\ syncConfig[m.from][k] # "local"
          /\ m.to = ParentOf(m.from)
               => syncConfig[m.from][k] \in {"up", "bidirectional", Unset}
          /\ ParentOf(m.to) = m.from
               => syncConfig[m.from][k] \in {"down", "bidirectional", Unset}]_vars
  /\ [][\A n \in Nodes : \A keys \in (SUBSET HKeys) \ {{}} :
          setState(n, keys) =>
            \A k \in keys :
              syncConfig[n][k] = Unset =>
                /\ ParentOf(n) # NoParent =>
                     \E m \in net' \ net : m.to = ParentOf(n) /\ k \in m.keys
                /\ \A c \in ChildrenOf(n) :
                     \E m \in net' \ net : m.to = c /\ k \in m.keys]_vars

\* M set both keys with a configured up and b unconfigured: a reached the root
\* and not M's child, b reached both
C7_Witness ==
  /\ net = {}
  /\ issued[1] = [by |-> "M", keys |-> HKeys]
  /\ syncConfig["M"]["a"] = "up"
  /\ syncConfig["M"]["b"] = Unset
  /\ nextId = 2
  /\ store["R"]["a"] = 1 /\ store["L"]["a"] = 0
  /\ store["R"]["b"] = 1 /\ store["L"]["b"] = 1

C21_RuntimeConfig ==
  /\ [][\A n \in Nodes, k \in HKeys, d \in Directions :
          updateSyncConfig(n, k, d) =>
             /\ getSyncDirection(n, k)' = d
             /\ net' = net
             /\ store' = store
             /\ processed' = processed
             /\ hops' = hops]_vars
  /\ [][\A n \in Nodes : \A keys \in (SUBSET HKeys) \ {{}} :
          setState(n, keys) =>
             LET goUp == {k \in keys :
                          getSyncDirection(n, k) \in {"up", "bidirectional"}}
                 goDown == {k \in keys :
                            getSyncDirection(n, k) \in {"down", "bidirectional"}}
             IN  /\ \A m \in net' \ net :
                       /\ m.from = n
                       /\ m.to = ParentOf(n) => m.keys = goUp
                       /\ m.to \in ChildrenOf(n) => m.keys = goDown
                       /\ m.to = ParentOf(n) \/ m.to \in ChildrenOf(n)
                 /\ (ParentOf(n) # NoParent /\ goUp # {}) =>
                       \E m \in net' \ net : m.to = ParentOf(n)
                 /\ goDown # {} =>
                       \A c \in ChildrenOf(n) : \E m \in net' \ net : m.to = c]_vars

\* the root's key a, local everywhere at first, was switched to down, and the
\* setState that followed reached both children; M, still local, kept it from L
C21_Witness ==
  /\ reconfigured = 1
  /\ syncConfig["R"]["a"] = "down"
  /\ syncConfig["M"]["a"] = "local"
  /\ issued[1] = [by |-> "R", keys |-> {"a"}]
  /\ net = {}
  /\ store["M"]["a"] = 1
  /\ store["S"]["a"] = 1
  /\ store["L"]["a"] = 0

(***************************************************************************)
(* Part III - properties                                                   *)
(***************************************************************************)
\* C9: discovery never blocks.  A coordinator that is Initializing becomes
\* Ready, whoever answers; neither discovery is resolved more than once, and at
\* Ready each has been resolved exactly once.
C9_DiscoveryNeverBlocks ==
  /\ (phase = "Initializing") ~> (phase = "Ready")
  /\ [](resolved.parent <= 1 /\ resolved.child <= 1)
  /\ [](phase = "Ready" => resolved.parent = 1 /\ resolved.child = 1)

\* Ready although the parent never answered and one of two frames never did
C9_Witness ==
  /\ phase = "Ready"
  /\ embedded /\ ~parentAlive
  /\ parentDisc = "timeout"
  /\ elems = Elems
  /\ responsive = {"e1"}
  /\ kids = {"e1"}

C11_TimeoutFallback ==
  /\ [][childTimeout =>
         getChildren' = {e \in elems : childLink[e] = "consumed"}]_vars
  /\ [][\A e \in Elems :
          (childDisc = "done" /\ e \notin joining /\ e \in getChildren') =>
             e \in getChildren]_vars
  /\ (phase = "Discovering") ~> (phase = "Ready")

\* Ready with one frame registered, while the answer of the other frame arrived
\* after the timer and left it out
C11_Witness ==
  /\ phase = "Ready"
  /\ elems = Elems
  /\ responsive = Elems
  /\ childLink["e1"] = "consumed"
  /\ childLink["e2"] = "consumed"
  /\ getChildren = {"e2"}

\* C20: dynamic topology.  An element added after initialization starts a
\* handshake while the coordinator stays as it is (Ready, same parent, no
\* discovery resolved again); it is in getChildren() from the step that
\* completes its handshake and not before; a removed element is out of
\* getChildren() at once and stays out while it is not in the document; and
\* every STATE_UPDATE push goes to the frames of getChildren(), so none goes to
\* a removed element.
C20_DynamicTopology ==
  /\ [][\A e \in Elems :
          onChildAdded(e) =>
             /\ phase' = "Ready" /\ parentRef' = parentRef /\ resolved' = resolved
             /\ getChildren' = getChildren
             /\ e \in joining']_vars
  /\ [][\A e \in Elems :
          (e \in joining /\ onChildAck(e)) => e \in getChildren']_vars
  /\ [][\A e \in Elems :
          (e \notin getChildren /\ e \in getChildren') =>
             (childLink[e] = "acked" /\ onChildAck(e))]_vars
  /\ [][\A e \in Elems : onChildRemoved(e) => e \notin getChildren']_vars
  /\ [](getChildren \subseteq elems)
  /\ [][broadcastDown => lastPush' = getChildren]_vars
  /\ [][lastPush' # lastPush => lastPush' \subseteq elems]_vars

\* e2 was added after initialization and registered, e1 was removed, and the
\* push that followed went to e2 alone
C20_Witness ==
  /\ phase = "Ready"
  /\ added = {"e2"}
  /\ removed = {"e1"}
  /\ "e1" \in responsive
  /\ elems = {"e2"}
  /\ getChildren = {"e2"}
  /\ lastPush = {"e2"}

C24_OtherTypeIgnored ==
  /\ [][\A c \in Children :
          (/\ toRoot[c] # <<>>
           /\ Head(toRoot[c]).type \notin {"atom-sync", "atom-sync-request"}
           /\ setupMessageListener(c)) =>
             /\ atoms' = atoms /\ order' = order /\ seen' = seen
             /\ childAtoms' = childAtoms /\ childSeen' = childSeen
             /\ toChild' = toChild
             /\ toRoot' = [toRoot EXCEPT ![c] = Tail(@)]
             /\ UNCHANGED <<toTop, toMid, toNested>>]_vars
  /\ [][\A c \in Children :
          (/\ toChild[c] # <<>>
           /\ Head(toChild[c]).type \notin {"atom-sync", "atom-sync-request"}
           /\ handleMessage(c)) =>
             /\ atoms' = atoms /\ seen' = seen
             /\ childAtoms' = childAtoms /\ childSeen' = childSeen
             /\ toRoot' = toRoot
             /\ toChild' = [toChild EXCEPT ![c] = Tail(@)]
             /\ UNCHANGED <<toTop, toMid, toNested>>]_vars

\* two messages of another protocol were posted, into the root's window or into
\* frame A's, both were delivered, and every value and every subscriber is where
\* the set-up left it
C24_Witness ==
  /\ used.others = 2 /\ used.ops = 2
  /\ Quiet
  /\ atoms["theme"] = "light"
  /\ \A cb \in Callbacks : seen["theme"][cb] = "light"
  /\ copy = "ts"
  /\ childAtoms["A"]["theme"] = "dark"
  /\ childSeen["A"]["theme"]["cb1"] = "dark"

Settled == toPage = <<>> /\ \A f \in DemoFrames : toFrame[f] = <<>>

\* C27, as the claim has it: every increment, decrement or reset that reaches
\* the page is applied to the one counter in arrival order, and without a reset
\* every frame, the nested one included, ends up displaying the initial count
\* plus the increments minus the decrements.
C27_EveryFrameConverges ==
  <>[](clicked.reset = 0 =>
         \A f \in DemoFrames : display[f] = clicked.increment - clicked.decrement)

\* C27, amended: the page's listener applies the request that arrived first
\* (+1, -1, set to 0) and every change of the count is posted as a count-update
\* with the new count into each frame whose document is loaded at that moment,
\* the nested frame only once it has its document; without a reset the count
\* is, once every request is handled, the increments minus the decrements; and
\* in the end every frame that the latest count-update reached displays the
\* count.  A frame that loads after the latest change keeps its own initial
\* display.
C27_LoadedFramesConverge ==
  /\ [][pageListener =>
          /\ countAtom' = Applied(Head(toPage).type, countAtom)
          /\ toPage' = Tail(toPage)
          /\ countAtom' # countAtom =>
               /\ sentTo' = loaded
               /\ \A f \in DemoFrames :
                    toFrame'[f] = IF f \in loaded
                                    THEN Append(toFrame[f], CountUpdate(countAtom'))
                                    ELSE toFrame[f]]_vars
  /\ [](clicked.reset = 0 /\ toPage = <<>> =>
          countAtom = clicked.increment - clicked.decrement)
  /\ <>[](\A f \in sentTo : display[f] = countAtom)

\* two increments, the nested frame having loaded before the second was
\* applied: every request and every count-update is delivered and every frame
\* displays 2
C27_Witness ==
  /\ Settled
  /\ clicked = [increment |-> 2, decrement |-> 0, reset |-> 0]
  /\ countAtom = 2
  /\ sentTo = DemoFrames
  /\ \A f \in DemoFrames : display[f] = 2

(***************************************************************************)
(* Part VI - properties                                                    *)
(***************************************************************************)
\* the positions of the latest operation's calls that went to fn
CallsTo(fn) == {i \in DOMAIN calls' : calls'[i].fn = fn}

Malformed(m) == m.type = "atom-sync" /\ (m.key = Missing \/ m.value = Missing)

\* C35 (as stated): malformed value messages are discarded.  The delivery of an
\* atom-sync envelope that lacks the key field or the value field, to the root
\* or to a child's client, changes no cell, calls no subscriber and posts no
\* message.
C35_MalformedDiscarded ==
  [][/\ \A c \in Children :
          ( /\ toRoot[c] # <<>>
            /\ Malformed(Head(toRoot[c]))
            /\ setupMessageListener(c) )
          => atoms' = atoms /\ seen' = seen /\ toChild' = toChild
     /\ \A c \in Children :
          ( /\ toChild[c] # <<>>
            /\ Malformed(Head(toChild[c]))
            /\ handleMessage(c) )
          => childAtoms' = childAtoms /\ childSeen' = childSeen /\ toRoot' = toRoot
    ]_vars

\* what does hold: an envelope without key field finds no cell in the root of
\* any copy nor in a JavaScript or TypeScript client, and is discarded there;
\* and no malformed envelope makes a client post anything
C35_KeylessDiscarded ==
  [][/\ \A c \in Children :
          ( /\ toRoot[c] # <<>>
            /\ Malformed(Head(toRoot[c]))
            /\ Head(toRoot[c]).key = Missing
            /\ setupMessageListener(c) )
          => atoms' = atoms /\ seen' = seen /\ toChild' = toChild
     /\ \A c \in Children :
          ( /\ toChild[c] # <<>>
            /\ Malformed(Head(toChild[c]))
            /\ handleMessage(c) )
          => /\ toRoot' = toRoot
             /\ (Head(toChild[c]).key = Missing /\ copy # "svelte")
                   => childAtoms' = childAtoms /\ childSeen' = childSeen
    ]_vars

====
